---- MODULE Spec2Model ----
(***************************************************************************)
(* Model of the matching-score and interview-integrity logic of the        *)
(* recruiting application.                                                 *)
(*                                                                         *)
(* Numbers.  A JavaScript number is a record [kind, v]: kind "num" with v  *)
(* the value in hundredths (One = 1.00), or kind "NaN".  Arithmetic is the *)
(* exact real arithmetic of the source, truncated to a hundredth where the *)
(* source divides.  A call that throws yields kind "throw".                *)
(*                                                                         *)
(* Strings are sequences of one-character strings.                         *)
(***************************************************************************)
EXTENDS Integers, Sequences, FiniteSets, TLC

VARIABLES
    \* AIService.calculateMatchScore (src/lib/ai-service.ts)
    matchPc,        \* position inside calculateMatchScore
    candidate,      \* data of the candidates lookup (Null when no row came back)
    job,            \* data of the jobs lookup
    matchResult,    \* the value the promise resolved to
    matchLogged,    \* console.error was called in the catch block
    \* the two cosine computations applied to a pair of vectors
    cosPc, vecA, vecB, simAB, simBA, gptAB,
    \* InterviewSession (src/components/interview-session.tsx); texts are kept
    \* as their lengths, flags as [type, severity]
    challenge,              \* the challenge has been set (it is null before)
    timeRemaining,
    isRecording,
    codeInput,
    explanation,
    integrityFlags,
    showSurpriseQuestion,
    isTabActive,
    pasteAttempts,
    \* InterviewScheduler (src/components/interview-session.tsx, both variants)
    \* and the applications and interviews tables
    variant,                \* 1: the component of line 451, 2: the one of line 663
    appStatus,              \* applications.status by application id
    interviews,             \* the rows of the interviews table, in insertion order
    loading,
    fetchingApplications,
    applications,           \* the ids of the applications offered in the select
    selectedApplicationId,  \* 0 when null or ""
    scheduledDateTime,      \* the date and time fields are filled in
    schedPc,                \* position inside handleScheduleInterview
    submittedId,            \* selectedApplicationId as captured by the running handler
    fetchJobsPending,       \* fetches waiting for the jobs query
    fetchAppsPending,       \* fetches waiting for the applications query
    schedToast,             \* title of the last toast
    schedLogged,            \* console.error was called since the last submit or fetch
    schedOutcome,           \* how the last handleScheduleInterview ended
    \* CandidatePoolList (src/unnamed/part_001)
    poolCandidates,         \* candidates: [id, embedding present, ai_match_score]
    poolJobs,               \* jobs: [id, embedding present]
    selectedJobId,          \* 0 when null
    poolLoading,
    poolFetching,           \* fetchJobsAndCandidates is in flight
    effectPending,          \* a dependency of the ranking effect changed since it last ran
    rankInFlight,           \* the candidates captured by the rankCandidatesForJob runs in flight
    rankTriggers,           \* job selections (by the load or the user) and Re-rank presses so far
    rankStarted,            \* ranking runs started so far
    rankStored,             \* ranked lists stored so far
    poolToast,
    poolLogged,
    \* RecruiterDashboard (src/components/recruiter-dashboard.tsx)
    statsPc,                \* 0 before fetchRecruiterStats, k while awaiting query k, StatsDone after
    statsCounts,            \* the counts the queries returned so far
    recruiterStats,         \* stats
    statsLoading,
    statsFailed,            \* a query of the current run returned an error
    statsLogged,            \* console.error was called in the current run
    statsToast,             \* title of the toast shown in the current run
    \* CandidateDashboard (src/unnamed/part_002)
    dashPc,                 \* 0 before fetchDashboardData, k while awaiting query k, DashDone after
    dashApplications,       \* applicationsData: <<>> when null, <<n>> for n rows
    candidateStats,         \* stats: totalApplications and interviewsScheduled
    dashLoading,
    dashFailed,
    dashLogged,
    dashToast,
    \* two calls of AIService.calculateMatchScore for the same job
    blendPc,
    blendJob,               \* the jobs row of both calls
    blendLow,               \* the candidates row of the first call
    blendHigh,              \* the candidates row of the second call: one column differs
    blendScoreLow,          \* what the first call returned
    blendScoreHigh,         \* what the second call returned
    \* AuthProvider (src/lib/auth-context.tsx)
    user,                   \* 0 when null, else the user's id
    profile,
    candidateProfile,
    authLoading,
    sessionPending,         \* initializeAuth awaits getSession
    authFetches,            \* runs of fetchUserData in flight: [user, stage]
    authEvents,             \* auth state changes not yet handed to the callback
    signInPending,          \* users whose signInWithPassword is in flight
    signUpPending,          \* runs of signUp in flight: [user, stage]
    updatePending,          \* remote updates in flight: [target, user]
    updateOutcome,          \* how the last update call ended
    authCalls,              \* calls made and external auth changes so far
    profilesTable,          \* profiles.full_name by user id
    candidatesTable,        \* candidates.location by profile id
    \* UpcomingInterviews (src/components/upcoming-interviews.tsx)
    upMounted,              \* the component is on the page
    upStatus,               \* interviews.status by interview id
    upInterviews,           \* interviews: the rows of the last successful fetch
    upLoading,
    upFetches,              \* runs of fetchInterviews in flight
    upStarts,               \* update requests of startInterview in flight, by interview id
    upStartsMade,           \* calls of startInterview so far
    upToast,
    upLogged,               \* console.error was called
    \* UpcomingInterviews with the Start / Join / Resume buttons (src/unnamed/part_001)
    viewMounted,
    viewNow,                \* the clock, in units of ten minutes
    viewScheduledAt,        \* interviews.scheduled_at of the viewer's interview
    viewStatus,             \* interviews.status of the viewer's interview
    viewInterviews,         \* interviews: the rows of the last successful fetch
    viewLoading,
    viewFetches,            \* runs of fetchInterviews in flight
    viewRenderedAt,         \* the clock when the component last rendered
    viewOpened,             \* the last session opened: when, and the status its button showed
    \* CandidateProfileForm (src/components/candidate-profile-form.tsx)
    formPc,                 \* where handleSubmit is: idle, updateProfile, updateCandidate
    formLoading,
    formSkills,             \* skills: the names in the form
    resumeSelected,         \* resumeFile is not null
    resumeMentions,         \* the skills parseResumeSkills extracts from the selected file
    formClosure,            \* skills and resumeFile as the running handleSubmit sees them
    formWritten,            \* the skill names of the last updateCandidateProfile call
    formReads,              \* FileReader reads and parseResumeSkills calls in flight
    formSubmits,            \* submits so far
    formToast

matchVars == <<matchPc, candidate, job, matchResult, matchLogged>>
cosVars == <<cosPc, vecA, vecB, simAB, simBA, gptAB>>

sessionVars == <<challenge, timeRemaining, isRecording, codeInput, explanation,
                 integrityFlags, showSurpriseQuestion, isTabActive, pasteAttempts>>

schedVars == <<variant, appStatus, interviews, loading, fetchingApplications, applications,
               selectedApplicationId, scheduledDateTime, schedPc, submittedId,
               fetchJobsPending, fetchAppsPending, schedToast, schedLogged, schedOutcome>>

poolVars == <<poolCandidates, poolJobs, selectedJobId, poolLoading, poolFetching,
              effectPending, rankInFlight, rankTriggers, rankStarted, rankStored, poolToast,
              poolLogged>>

dashVars == <<statsPc, statsCounts, recruiterStats, statsLoading, statsFailed, statsLogged,
              statsToast, dashPc, dashApplications, candidateStats, dashLoading, dashFailed,
              dashLogged, dashToast>>

blendVars == <<blendPc, blendJob, blendLow, blendHigh, blendScoreLow, blendScoreHigh>>

authVars == <<user, profile, candidateProfile, authLoading, sessionPending, authFetches,
              authEvents, signInPending, signUpPending, updatePending, updateOutcome,
              authCalls, profilesTable, candidatesTable>>

upVars == <<upMounted, upStatus, upInterviews, upLoading, upFetches, upStarts, upStartsMade, upToast, upLogged>>

viewVars == <<viewMounted, viewNow, viewScheduledAt, viewStatus, viewInterviews, viewLoading, viewFetches, viewRenderedAt, viewOpened>>

formVars == <<formPc, formLoading, formSkills, resumeSelected, resumeMentions, formClosure, formWritten, formReads, formSubmits, formToast>>

vars == <<matchVars, cosVars, sessionVars, schedVars, poolVars, dashVars, blendVars, authVars, upVars, viewVars, formVars>>

\* what the actions of one component leave alone
notMatch == <<cosVars, sessionVars, schedVars, poolVars, dashVars, blendVars, authVars, upVars, viewVars, formVars>>
notCos == <<matchVars, sessionVars, schedVars, poolVars, dashVars, blendVars, authVars, upVars, viewVars, formVars>>
notSession == <<matchVars, cosVars, schedVars, poolVars, dashVars, blendVars, authVars, upVars, viewVars, formVars>>
notSched == <<matchVars, cosVars, sessionVars, poolVars, dashVars, blendVars, authVars, upVars, viewVars, formVars>>
notPool == <<matchVars, cosVars, sessionVars, schedVars, dashVars, blendVars, authVars, upVars, viewVars, formVars>>
notDash == <<matchVars, cosVars, sessionVars, schedVars, poolVars, blendVars, authVars, upVars, viewVars, formVars>>
notAuth == <<matchVars, cosVars, sessionVars, schedVars, poolVars, dashVars, blendVars, upVars, viewVars, formVars>>
notUpcoming == <<matchVars, cosVars, sessionVars, schedVars, poolVars, dashVars, blendVars, authVars, viewVars, formVars>>
notView == <<matchVars, cosVars, sessionVars, schedVars, poolVars, dashVars, blendVars, authVars, upVars, formVars>>
notForm == <<matchVars, cosVars, sessionVars, schedVars, poolVars, dashVars, blendVars, authVars, upVars, viewVars>>
notBlend == <<matchVars, cosVars, sessionVars, schedVars, poolVars, dashVars, authVars, upVars, viewVars, formVars>>

(***************************************************************************)
(* Bounds of the model                                                     *)
(***************************************************************************)
MaxDim == 2          \* longest embedding vector
MaxYears == 3        \* largest experience_years of a candidate row
TimeLimitSeconds == 2    \* challenge.time_limit_minutes * 60 (2700 for the mock challenge)
MaxLowFlags == 20    \* integrity flags raised in a long session of explanation edits
MaxFlags == 4        \* integrity flags raised in one session
NumApps == 3         \* applications in the table; the last one is for another recruiter's job
MaxInterviews == 2   \* rows inserted into the interviews table
MaxFetches == 2      \* fetches of the application list in flight at once
NumCandidates == 2   \* rows of the candidates table shown in the pool
NumJobs == 2         \* rows of the jobs table
MaxRankRuns == 3     \* ranking runs started between two actions of the user
MaxCount == 1        \* largest row count a dashboard query returns
NumInterviewRows == 2  \* rows of the interviews table the viewer takes part in
MaxStarts == 2       \* calls of startInterview
MaxTime == 5         \* the clock stops here, in units of ten minutes
MaxSubmits == 2      \* submits of the candidate profile form
MaxAuthCalls == 2    \* calls of the auth functions and external auth changes in one run

(***************************************************************************)
(* JavaScript values                                                       *)
(***************************************************************************)
Null == [kind |-> "null", v |-> 0]           \* a null number
NullList == [kind |-> "null", v |-> <<>>]    \* a null array
List(x) == [kind |-> "list", v |-> x]
NaN == [kind |-> "NaN", v |-> 0]
Thrown == [kind |-> "throw", v |-> 0]
Num(x) == [kind |-> "num", v |-> x]
IsNum(x) == x.kind = "num"

\* the literal 1 (and 100%), in hundredths
One == 100

Abs(x) == IF x < 0 THEN -x ELSE x

\* Math.max(x, y) and Math.min(x, y): NaN when either argument is NaN
MathMax(x, y) ==
    IF x.kind = "NaN" \/ y.kind = "NaN" THEN NaN
    ELSE IF x.v >= y.v THEN x ELSE y

MathMin(x, y) ==
    IF x.kind = "NaN" \/ y.kind = "NaN" THEN NaN
    ELSE IF x.v <= y.v THEN x ELSE y

(***************************************************************************)
(* Embeddings: Null or a sequence of integer components                    *)
(***************************************************************************)
Components == {-1, 0, 1}

Vectors == UNION {[1..n -> Components] : n \in 0..MaxDim}

Embeddings == {NullList} \cup {List(e) : e \in Vectors}

RECURSIVE SumTo(_, _)
\* sum of f[1..n]
SumTo(f, n) == IF n = 0 THEN 0 ELSE SumTo(f, n - 1) + f[n]

\* a.reduce((sum, val) => sum + val * val, 0)
SumSquares(a) == SumTo([i \in 1..Len(a) |-> a[i] * a[i]], Len(a))

\* a.reduce((sum, val, i) => sum + val * b[i], 0): b[i] is undefined past the
\* end of b, and val * undefined is NaN
DotProduct(a, b) ==
    IF Len(a) > Len(b) THEN NaN
    ELSE Num(SumTo([i \in 1..Len(a) |-> a[i] * b[i]], Len(a)))

\* d / (Math.sqrt(qa) * Math.sqrt(qb)) for integers d, qa, qb, in hundredths
\* truncated toward zero.  sqrt(qa) * sqrt(qb) = sqrt(qa * qb); 0 / 0 is NaN.
\* (qa * qb = 0 makes one vector all zeros, hence d = 0: no x / 0 with x # 0.)
DivideByMagnitudes(d, qa, qb) ==
    IF qa * qb = 0 THEN NaN
    ELSE LET n == (One * One * d * d) \div (qa * qb)
             k == CHOOSE r \in 0..(One * Abs(d)) : r * r <= n /\ (r + 1) * (r + 1) > n
         IN  Num(IF d < 0 THEN -k ELSE k)

\* the three reduce calls and the division shared by both services
Cosine(a, b) ==
    LET dotProduct == DotProduct(a, b)
        magnitudeA2 == SumSquares(a)
        magnitudeB2 == SumSquares(b)
    IN  IF dotProduct.kind = "NaN" THEN NaN
        ELSE DivideByMagnitudes(dotProduct.v, magnitudeA2, magnitudeB2)

\* AIService.cosineSimilarity(a, b); reduce on null, or b[i] of null, throws
cosineSimilarity(a, b) ==
    IF a.kind = "null" \/ b.kind = "null" THEN Thrown
    ELSE Cosine(a.v, b.v)

\* GPTOSSService.calculateMatchScore: the similarity before the rescale
gptSimilarity(jobEmbedding, candidateEmbedding) ==
    IF jobEmbedding.kind = "null" \/ candidateEmbedding.kind = "null" THEN Thrown
    ELSE Cosine(jobEmbedding.v, candidateEmbedding.v)

\* GPTOSSService.calculateMatchScore: Math.max(0, Math.min(100, (similarity + 1) * 50)),
\* 0 from the catch block
gptCalculateMatchScore(jobEmbedding, candidateEmbedding) ==
    LET similarity == gptSimilarity(jobEmbedding, candidateEmbedding)
    IN  IF similarity.kind = "throw" THEN Num(0)
        ELSE IF similarity.kind = "NaN" THEN NaN
        ELSE MathMax(Num(0), MathMin(Num(100 * One), Num((similarity.v + One) * 50)))

(***************************************************************************)
(* Strings                                                                 *)
(***************************************************************************)
UpperCase == <<"A", "B", "C", "D", "E", "F", "G", "H", "I", "J", "K", "L", "M",
               "N", "O", "P", "Q", "R", "S", "T", "U", "V", "W", "X", "Y", "Z">>
LowerCase == <<"a", "b", "c", "d", "e", "f", "g", "h", "i", "j", "k", "l", "m",
               "n", "o", "p", "q", "r", "s", "t", "u", "v", "w", "x", "y", "z">>
Digits == <<"0", "1", "2", "3", "4", "5", "6", "7", "8", "9">>

IsDigit(c) == \E i \in 1..Len(Digits) : Digits[i] = c
DigitValue(c) == (CHOOSE i \in 1..Len(Digits) : Digits[i] = c) - 1

\* String.prototype.toLowerCase
toLowerCase(s) ==
    [i \in 1..Len(s) |->
        IF \E j \in 1..Len(UpperCase) : UpperCase[j] = s[i]
        THEN LowerCase[CHOOSE j \in 1..Len(UpperCase) : UpperCase[j] = s[i]]
        ELSE s[i]]

\* String.prototype.includes
includes(s, t) == \E i \in 0..(Len(s) - Len(t)) : SubSeq(s, i + 1, i + Len(t)) = t

RECURSIVE DigitRun(_, _, _)
\* the value of the digits of s from position i on, up to the first non-digit
DigitRun(s, i, acc) ==
    IF i > Len(s) \/ ~IsDigit(s[i]) THEN acc
    ELSE DigitRun(s, i + 1, 10 * acc + DigitValue(s[i]))

\* Number.parseInt(s.match(/\d+/)?.[0] || "0")
ParseFirstNumber(s) ==
    IF \E i \in 1..Len(s) : IsDigit(s[i])
    THEN DigitRun(s, CHOOSE i \in 1..Len(s) : IsDigit(s[i]) /\ \A j \in 1..(i - 1) : ~IsDigit(s[j]), 0)
    ELSE 0

Year == <<"y", "e", "a", "r">>

(***************************************************************************)
(* AIService.calculateSkillMatch and calculateExperienceBonus              *)
(***************************************************************************)
\* candidateSkills holds the skills' names; both arguments are arrays or null
calculateSkillMatch(candidateSkills, jobRequirements) ==
    IF candidateSkills.kind = "null" \/ jobRequirements.kind = "null"
       \/ Len(candidateSkills.v) = 0 \/ Len(jobRequirements.v) = 0
    THEN Num(0)
    ELSE LET candidateSkillNames == [i \in 1..Len(candidateSkills.v) |-> toLowerCase(candidateSkills.v[i])]
             requiredSkillNames == [i \in 1..Len(jobRequirements.v) |-> toLowerCase(jobRequirements.v[i])]
             matches == {i \in 1..Len(requiredSkillNames) :
                            \E j \in 1..Len(candidateSkillNames) :
                                \/ includes(candidateSkillNames[j], requiredSkillNames[i])
                                \/ includes(requiredSkillNames[i], candidateSkillNames[j])}
         IN  Num((One * Cardinality(matches)) \div Len(requiredSkillNames))

\* candidateYears is Null or Num(years * One); jobRequirements.find on null throws
calculateExperienceBonus(candidateYears, jobRequirements) ==
    IF jobRequirements.kind = "null" THEN Thrown
    ELSE LET reqs == jobRequirements.v
             hits == {i \in 1..Len(reqs) : includes(toLowerCase(reqs[i]), Year)}
             experienceReq == reqs[CHOOSE i \in hits : \A j \in hits : i <= j]
             reqYears == ParseFirstNumber(experienceReq) * One
         IN  IF hits = {} \/ candidateYears.kind = "null" \/ candidateYears.v = 0 THEN Num(50)
             ELSE IF candidateYears.v >= reqYears THEN Num(One)
             ELSE IF 10 * candidateYears.v >= 7 * reqYears THEN Num(80)
             ELSE IF 10 * candidateYears.v >= 5 * reqYears THEN Num(60)
             ELSE Num(30)

(***************************************************************************)
(* AIService.calculateMatchScore                                           *)
(***************************************************************************)
\* the weights of line 148, in hundredths
WeightSimilarity == 40
WeightSkill == 40
WeightExperience == 20

SkillPython == <<"P", "y", "t", "h", "o", "n">>
SkillSql == <<"S", "Q", "L">>
SkillPy == <<"p", "y">>
ReqPython == <<"p", "y", "t", "h", "o", "n">>
ReqRust == <<"r", "u", "s", "t">>
ReqFourYears == <<"4", " ", "Y", "e", "a", "r", "s">>
ReqTwoYears == <<"2", "+", " ", "y", "e", "a", "r", "s">>
ReqYears == <<"y", "e", "a", "r", "s">>

\* candidates.skills (the names of the skills)
SkillLists == {NullList, List(<<SkillPython>>), List(<<SkillSql, SkillPy>>)}

\* jobs.requirements
RequirementLists ==
    {NullList, List(<<>>), List(<<ReqPython, ReqFourYears>>),
     List(<<ReqRust, ReqTwoYears, ReqFourYears>>), List(<<ReqYears, ReqPython>>)}

\* candidates.experience_years, an INTEGER column that may be NULL
ExperienceYears == {Null} \cup {Num(y * One) : y \in 0..MaxYears}

NoCandidate ==
    [found |-> FALSE, embedding |-> NullList, skills |-> NullList, experience_years |-> Null]
NoJob == [found |-> FALSE, embedding |-> NullList, requirements |-> NullList]

CandidateRows ==
    {[found |-> TRUE, embedding |-> e, skills |-> s, experience_years |-> y] :
        e \in Embeddings, s \in SkillLists, y \in ExperienceYears}

JobRows ==
    {[found |-> TRUE, embedding |-> e, requirements |-> r] :
        e \in Embeddings, r \in RequirementLists}

\* similarity * 0.4 + skillMatch * 0.4 + experienceBonus * 0.2
finalScore(similarity, skillMatch, experienceBonus) ==
    IF similarity.kind = "NaN" THEN NaN
    ELSE Num((WeightSimilarity * similarity.v + WeightSkill * skillMatch.v
              + WeightExperience * experienceBonus.v) \div One)

\* Math.min(Math.max(finalScore, 0), 1)
clampScore(score) == MathMin(MathMax(score, Num(0)), Num(One))

\* the body of the try block once both lookups have returned, and the catch block:
\* [value |-> what the call returns, logged |-> console.error was called]
scoreOf(cand, jb) ==
    IF ~cand.found \/ ~jb.found THEN [value |-> Num(0), logged |-> TRUE]
    ELSE LET similarity == cosineSimilarity(cand.embedding, jb.embedding)
             skillMatch == calculateSkillMatch(cand.skills, jb.requirements)
             experienceBonus == calculateExperienceBonus(cand.experience_years, jb.requirements)
         IN  IF similarity.kind = "throw" \/ experienceBonus.kind = "throw"
             THEN [value |-> Num(0), logged |-> TRUE]
             ELSE [value |-> clampScore(finalScore(similarity, skillMatch, experienceBonus)),
                   logged |-> FALSE]

MatchInit ==
    /\ matchPc = "idle"
    /\ candidate = NoCandidate
    /\ job = NoJob
    /\ matchResult = Num(0)
    /\ matchLogged = FALSE

\* calculateMatchScore(candidateId, jobId) is called
MatchStart ==
    /\ matchPc = "idle"
    /\ matchPc' = "candidates"
    /\ candidate' = NoCandidate
    /\ job' = NoJob
    /\ matchLogged' = FALSE
    /\ matchResult' = Num(0)
    /\ UNCHANGED notMatch

\* the candidates lookup returns: a row, or data null (no row, or the request failed)
MatchLookupCandidate ==
    /\ matchPc = "candidates"
    /\ candidate' \in CandidateRows \cup {NoCandidate}
    /\ matchPc' = "jobs"
    /\ UNCHANGED <<job, matchResult, matchLogged, notMatch>>

\* the jobs lookup returns
MatchLookupJob ==
    /\ matchPc = "jobs"
    /\ job' \in JobRows \cup {NoJob}
    /\ matchPc' = "compute"
    /\ UNCHANGED <<candidate, matchResult, matchLogged, notMatch>>

\* lines 136-154: the score is computed and returned
MatchCompute ==
    /\ matchPc = "compute"
    /\ matchResult' = scoreOf(candidate, job).value
    /\ matchLogged' = scoreOf(candidate, job).logged
    /\ matchPc' = "done"
    /\ UNCHANGED <<candidate, job, notMatch>>

\* the caller has taken the result
MatchReturn ==
    /\ matchPc = "done"
    /\ matchPc' = "idle"
    /\ UNCHANGED <<candidate, job, matchResult, matchLogged, notMatch>>

(***************************************************************************)
(* The two cosine computations on a pair of vectors                        *)
(***************************************************************************)
CosInit ==
    /\ cosPc = "input"
    /\ vecA = List(<<>>)
    /\ vecB = List(<<>>)
    /\ simAB = Num(0)
    /\ simBA = Num(0)
    /\ gptAB = Num(0)

\* a pair of embedding vectors is chosen
CosChoose ==
    /\ cosPc = "input"
    /\ vecA' \in {List(e) : e \in Vectors}
    /\ vecB' \in {List(e) : e \in Vectors}
    /\ cosPc' = "chosen"
    /\ UNCHANGED <<simAB, simBA, gptAB, notCos>>

\* AIService.cosineSimilarity is applied in both orders, and GPTOSSService's similarity
CosApply ==
    /\ cosPc = "chosen"
    /\ simAB' = cosineSimilarity(vecA, vecB)
    /\ simBA' = cosineSimilarity(vecB, vecA)
    /\ gptAB' = gptSimilarity(vecA, vecB)
    /\ cosPc' = "applied"
    /\ UNCHANGED <<vecA, vecB, notCos>>

CosAgain ==
    /\ cosPc = "applied"
    /\ cosPc' = "input"
    /\ UNCHANGED <<vecA, vecB, simAB, simBA, gptAB, notCos>>

(***************************************************************************)
(* InterviewSession                                                        *)
(***************************************************************************)
PenaltyHigh == 30
PenaltyMedium == 15
PenaltyLow == 5
PasteThreshold == 50
CodeJumpThreshold == 100
ExplanationThreshold == 50
MinCodeLength == 10

\* lengths of the texts typed or pasted
CodeLengths == {9, 10, 110}
ExplanationLengths == {50, 51}
PasteLengths == {50, 51}

Flag(t, sev) == [type |-> t, severity |-> sev]

\* a changed addIntegrityFlag: the new flag replaces the list
addIntegrityFlagReplacing(flags, flag) == <<flag>>

\* setIntegrityFlags((prev) => [...prev, flag])
addIntegrityFlag(flags, flag) == Append(flags, flag)

\* integrityFlags.filter((f) => f.severity === sev).length
CountSeverity(flags, sev) == Cardinality({i \in 1..Len(flags) : flags[i].severity = sev})

\* a changed getIntegrityScore: medium flags weigh as much as low ones
integrityScoreOfLightMedium(flags) ==
    LET penalty == CountSeverity(flags, "high") * PenaltyHigh
                   + CountSeverity(flags, "medium") * PenaltyLow
                   + CountSeverity(flags, "low") * PenaltyLow
    IN  IF One - penalty > 0 THEN One - penalty ELSE 0

\* getIntegrityScore for a list of flags, in hundredths
integrityScoreOf(flags) ==
    LET highFlags == CountSeverity(flags, "high")
        mediumFlags == CountSeverity(flags, "medium")
        lowFlags == CountSeverity(flags, "low")
        penalty == highFlags * PenaltyHigh + mediumFlags * PenaltyMedium + lowFlags * PenaltyLow
    IN  IF One - penalty > 0 THEN One - penalty ELSE 0

getIntegrityScore == integrityScoreOf(integrityFlags)

\* Math.floor(challenge.time_limit_minutes * 60 * 0.6)
SurpriseTime == (TimeLimitSeconds * 6) \div 10

\* a changed effect: the dialog is opened at any time from the threshold on
surpriseEffectFromThreshold(loaded, remaining, shown) ==
    IF loaded /\ remaining <= SurpriseTime THEN TRUE ELSE shown

\* the surprise question effect, run after timeRemaining or challenge changed
surpriseEffect(loaded, remaining, shown) ==
    IF loaded /\ remaining = SurpriseTime THEN TRUE ELSE shown

SessionInit ==
    /\ challenge = FALSE
    /\ timeRemaining = 0
    /\ isRecording = FALSE
    /\ codeInput = 0
    /\ explanation = 0
    /\ integrityFlags = <<>>
    /\ showSurpriseQuestion = FALSE
    /\ isTabActive = TRUE
    /\ pasteAttempts = 0

\* the mount effect: the mock challenge and its time limit are set
SessionLoad ==
    /\ ~challenge
    /\ challenge' = TRUE
    /\ timeRemaining' = TimeLimitSeconds
    /\ showSurpriseQuestion' = surpriseEffect(TRUE, TimeLimitSeconds, showSurpriseQuestion)
    /\ UNCHANGED <<isRecording, codeInput, explanation, integrityFlags, isTabActive,
                   pasteAttempts, notSession>>

\* a changed countdown: the timeout takes two seconds off
nextTimeRemainingSkipping(remaining) == IF remaining > 1 THEN remaining - 2 ELSE 0

\* the countdown effect: the value its timeout will store, for timeRemaining > 0
nextTimeRemaining(remaining) == IF remaining > 0 THEN remaining - 1 ELSE remaining

\* the one-second timeout of the countdown effect fires
TimerTick ==
    /\ nextTimeRemaining(timeRemaining) # timeRemaining
    /\ timeRemaining' = nextTimeRemaining(timeRemaining)
    /\ showSurpriseQuestion' = surpriseEffect(challenge, timeRemaining - 1, showSurpriseQuestion)
    /\ UNCHANGED <<challenge, isRecording, codeInput, explanation, integrityFlags, isTabActive,
                   pasteAttempts, notSession>>

\* a changed handleVisibilityChange: the tab switch is flagged as high
visibilityFlagsHigh(flags, hidden) ==
    IF hidden THEN addIntegrityFlag(flags, Flag("tab_switch", "high")) ELSE flags

\* a changed handleVisibilityChange: every event is flagged
visibilityFlagsEveryEvent(flags, hidden) ==
    addIntegrityFlag(flags, Flag("tab_switch", "medium"))

\* the flags after handleVisibilityChange with document.hidden = hidden
visibilityFlags(flags, hidden) ==
    IF hidden THEN addIntegrityFlag(flags, Flag("tab_switch", "medium")) ELSE flags

\* handleVisibilityChange for an event with document.hidden = hidden
VisibilityEvent(hidden) ==
    /\ hidden => Len(integrityFlags) < MaxFlags
    /\ isTabActive' = ~hidden
    /\ integrityFlags' = visibilityFlags(integrityFlags, hidden)
    /\ UNCHANGED <<challenge, timeRemaining, isRecording, codeInput, explanation,
                   showSurpriseQuestion, pasteAttempts, notSession>>

\* a visibilitychange event
VisibilityChange == \E hidden \in BOOLEAN : VisibilityEvent(hidden)

\* a changed handlePaste: a paste of exactly the threshold is flagged too
pasteFlaggedFromThreshold(onCodeInput, length) == onCodeInput /\ length >= PasteThreshold

\* handlePaste flags the paste
pasteFlagged(onCodeInput, length) == onCodeInput /\ length > PasteThreshold

\* handlePaste for a paste of length characters, on the code input or elsewhere;
\* the code input exists once the challenge is shown
PasteEvent(onCodeInput, length) ==
    /\ onCodeInput => challenge /\ ~showSurpriseQuestion
    /\ pasteFlagged(onCodeInput, length) => Len(integrityFlags) < MaxFlags
    /\ IF pasteFlagged(onCodeInput, length)
       THEN /\ pasteAttempts' = pasteAttempts + 1
            /\ integrityFlags' = addIntegrityFlag(integrityFlags, Flag("paste_detected", "high"))
       ELSE UNCHANGED <<pasteAttempts, integrityFlags>>
    /\ UNCHANGED <<challenge, timeRemaining, isRecording, codeInput, explanation,
                   showSurpriseQuestion, isTabActive, notSession>>

\* a paste event on the document
Paste == \E onCodeInput \in BOOLEAN, length \in PasteLengths : PasteEvent(onCodeInput, length)

\* a changed handleCodeChange: a growth of exactly the threshold is flagged too
codeChangeFlaggedFromThreshold(old, value) == value - old >= CodeJumpThreshold

\* handleCodeChange flags the change from the old to the new text
codeChangeFlagged(old, value) == value - old > CodeJumpThreshold

\* handleCodeChange(value)
CodeChangeOf(value) ==
    /\ challenge /\ ~showSurpriseQuestion
    /\ codeChangeFlagged(codeInput, value) => Len(integrityFlags) < MaxFlags
    /\ codeInput' = value
    /\ integrityFlags' =
          IF codeChangeFlagged(codeInput, value)
          THEN addIntegrityFlag(integrityFlags, Flag("unusual_timing", "medium"))
          ELSE integrityFlags
    /\ UNCHANGED <<challenge, timeRemaining, isRecording, explanation,
                   showSurpriseQuestion, isTabActive, pasteAttempts, notSession>>

\* a change event of the code input
HandleCodeChange == \E value \in CodeLengths : CodeChangeOf(value)

\* a changed handleExplanationChange: an explanation of exactly the threshold is flagged too
explanationFlaggedFromThreshold(value, code) ==
    value >= ExplanationThreshold /\ code < MinCodeLength

\* handleExplanationChange flags the new explanation
explanationFlagged(value, code) == value > ExplanationThreshold /\ code < MinCodeLength

\* handleExplanationChange(value), in a session that raises at most cap flags
ExplanationChangeOf(value, cap) ==
    /\ challenge /\ ~showSurpriseQuestion
    /\ explanationFlagged(value, codeInput) => Len(integrityFlags) < cap
    /\ explanation' = value
    /\ integrityFlags' =
          IF explanationFlagged(value, codeInput)
          THEN addIntegrityFlag(integrityFlags, Flag("inconsistent_explanation", "low"))
          ELSE integrityFlags
    /\ UNCHANGED <<challenge, timeRemaining, isRecording, codeInput,
                   showSurpriseQuestion, isTabActive, pasteAttempts, notSession>>

\* a change event of the explanation input
HandleExplanationChange == \E value \in ExplanationLengths : ExplanationChangeOf(value, MaxFlags)

\* a change event of the explanation input in a long session
LongExplanationChange ==
    \E value \in ExplanationLengths : ExplanationChangeOf(value, MaxLowFlags)

\* startRecording / stopRecording, whichever the button shows
ToggleRecording ==
    /\ challenge /\ ~showSurpriseQuestion
    /\ isRecording' = ~isRecording
    /\ UNCHANGED <<challenge, timeRemaining, codeInput, explanation, integrityFlags,
                   showSurpriseQuestion, isTabActive, pasteAttempts, notSession>>

\* Skip, Submit Answer, or the dialog's own close: setShowSurpriseQuestion(false)
CloseSurpriseQuestion ==
    /\ showSurpriseQuestion
    /\ showSurpriseQuestion' = FALSE
    /\ UNCHANGED <<challenge, timeRemaining, isRecording, codeInput, explanation,
                   integrityFlags, isTabActive, pasteAttempts, notSession>>

(***************************************************************************)
(* InterviewScheduler                                                      *)
(***************************************************************************)
AppIds == 1..NumApps

\* jobs.recruiter_id of the application's job: the signed-in recruiter's or not
OwnJob(a) == a < NumApps

\* .in("job_id", jobIds).eq("status", "shortlisted"), as ids in table order
ShortlistedOwn(status) ==
    LET ids == {a \in AppIds : OwnJob(a) /\ status[a] = "shortlisted"}
        RECURSIVE Sorted(_, _)
        Sorted(a, acc) == IF a > NumApps THEN acc
                          ELSE Sorted(a + 1, IF a \in ids THEN Append(acc, a) ELSE acc)
    IN  Sorted(1, <<>>)

\* the form is on the page
FormShown ==
    IF variant = 1 THEN ~(loading /\ Len(applications) = 0)
    ELSE ~fetchingApplications /\ Len(applications) > 0

\* before the recruiter opens the scheduler
SchedInit ==
    /\ variant = 0
    /\ appStatus = [a \in AppIds |-> "applied"]
    /\ interviews = <<>>
    /\ loading = FALSE
    /\ fetchingApplications = FALSE
    /\ applications = <<>>
    /\ selectedApplicationId = 0
    /\ scheduledDateTime = FALSE
    /\ schedPc = "idle"
    /\ submittedId = 0
    /\ fetchJobsPending = 0
    /\ fetchAppsPending = 0
    /\ schedToast = "none"
    /\ schedLogged = FALSE
    /\ schedOutcome = "none"

\* the scheduler mounts, in either variant of the component and over any
\* applications table: the state hooks take their initial values and the mount
\* effect calls the fetch
MountScheduler ==
    \E v \in {1, 2}, status \in [AppIds -> {"applied", "shortlisted"}] :
        /\ variant = 0
        /\ variant' = v
        /\ appStatus' = status
        /\ loading' = (v = 1)
        /\ fetchingApplications' = (v = 2)
        /\ fetchJobsPending' = 1
        /\ UNCHANGED <<interviews, applications, selectedApplicationId, scheduledDateTime,
                       schedPc, submittedId, fetchAppsPending, schedToast, schedLogged,
                       schedOutcome, notSched>>

\* the jobs query of a fetch returns
FetchJobsReturn ==
    \E ok \in BOOLEAN :
        /\ fetchJobsPending > 0
        /\ fetchJobsPending' = fetchJobsPending - 1
        /\ IF ok
           THEN /\ fetchAppsPending' = fetchAppsPending + 1
                /\ UNCHANGED <<loading, fetchingApplications, schedToast, schedLogged>>
           ELSE \* catch and finally
                /\ schedLogged' = TRUE
                /\ schedToast' = "Error"
                /\ loading' = IF variant = 1 THEN FALSE ELSE loading
                /\ fetchingApplications' = IF variant = 2 THEN FALSE ELSE fetchingApplications
                /\ UNCHANGED fetchAppsPending
        /\ UNCHANGED <<variant, appStatus, interviews, applications, selectedApplicationId,
                       scheduledDateTime, schedPc, submittedId, schedOutcome, notSched>>

\* the applications query of a fetch returns
FetchApplicationsReturn ==
    \E ok \in BOOLEAN :
        /\ fetchAppsPending > 0
        /\ fetchAppsPending' = fetchAppsPending - 1
        /\ IF ok
           THEN /\ applications' = ShortlistedOwn(appStatus)
                /\ selectedApplicationId' =
                      IF variant = 1 /\ Len(ShortlistedOwn(appStatus)) > 0
                      THEN ShortlistedOwn(appStatus)[1]
                      ELSE selectedApplicationId
                /\ UNCHANGED <<schedToast, schedLogged>>
           ELSE /\ schedLogged' = TRUE
                /\ schedToast' = "Error"
                /\ UNCHANGED <<applications, selectedApplicationId>>
        /\ loading' = IF variant = 1 THEN FALSE ELSE loading
        /\ fetchingApplications' = IF variant = 2 THEN FALSE ELSE fetchingApplications
        /\ UNCHANGED <<variant, appStatus, interviews, scheduledDateTime, schedPc, submittedId,
                       fetchJobsPending, schedOutcome, notSched>>

\* the recruiter picks one of the offered applications
SelectApplication ==
    \E i \in 1..Len(applications) :
        /\ FormShown
        /\ selectedApplicationId' = applications[i]
        /\ UNCHANGED <<variant, appStatus, interviews, loading, fetchingApplications,
                       applications, scheduledDateTime, schedPc, submittedId, fetchJobsPending,
                       fetchAppsPending, schedToast, schedLogged, schedOutcome, notSched>>

\* the recruiter fills in the date and time
EnterDateTime ==
    /\ FormShown
    /\ ~scheduledDateTime
    /\ scheduledDateTime' = TRUE
    /\ UNCHANGED <<variant, appStatus, interviews, loading, fetchingApplications, applications,
                   selectedApplicationId, schedPc, submittedId, fetchJobsPending,
                   fetchAppsPending, schedToast, schedLogged, schedOutcome, notSched>>

\* handleScheduleInterview up to the insert request (the button is disabled while loading)
SubmitSchedule ==
    /\ FormShown /\ ~loading
    /\ schedPc = "idle"          \* one run of the handler at a time
    /\ IF selectedApplicationId = 0 \/ ~scheduledDateTime
       THEN /\ schedToast' = "Missing Information"
            /\ schedOutcome' = "rejected"
            /\ UNCHANGED <<loading, schedPc, submittedId, schedLogged>>
       ELSE /\ loading' = TRUE
            /\ schedPc' = "insert"
            /\ submittedId' = selectedApplicationId
            /\ schedOutcome' = "running"
            /\ schedLogged' = FALSE
            /\ UNCHANGED schedToast
    /\ UNCHANGED <<variant, appStatus, interviews, fetchingApplications, applications,
                   selectedApplicationId, scheduledDateTime, fetchJobsPending,
                   fetchAppsPending, notSched>>

\* the insert into interviews returns; on success the update request is sent
InsertInterviewReturn ==
    \E ok \in BOOLEAN :
        /\ schedPc = "insert"
        /\ ok => Len(interviews) < MaxInterviews
        /\ IF ok
           THEN /\ interviews' = Append(interviews,
                      [application_id |-> submittedId, status |-> "scheduled"])
                /\ schedPc' = "update"
                /\ UNCHANGED <<loading, schedToast, schedLogged, schedOutcome>>
           ELSE /\ schedLogged' = TRUE
                /\ schedToast' = "Error Scheduling Interview"
                /\ loading' = FALSE
                /\ schedPc' = "idle"
                /\ schedOutcome' = "failed"
                /\ UNCHANGED interviews
        /\ UNCHANGED <<variant, appStatus, fetchingApplications, applications,
                       selectedApplicationId, scheduledDateTime, submittedId,
                       fetchJobsPending, fetchAppsPending, notSched>>

\* the update of applications.status returns; on success the form is reset and the
\* list is fetched again (not awaited), then finally runs
UpdateApplicationReturn ==
    \E ok \in BOOLEAN :
        /\ schedPc = "update"
        /\ ok => fetchJobsPending + fetchAppsPending < MaxFetches
        /\ IF ok
           THEN /\ appStatus' = [appStatus EXCEPT ![submittedId] = "interview"]
                /\ schedToast' = "Interview Scheduled!"
                /\ scheduledDateTime' = FALSE
                /\ selectedApplicationId' = 0
                /\ fetchJobsPending' = fetchJobsPending + 1
                /\ fetchingApplications' = IF variant = 2 THEN TRUE ELSE fetchingApplications
                /\ schedOutcome' = "completed"
                /\ UNCHANGED schedLogged
           ELSE /\ schedLogged' = TRUE
                /\ schedToast' = "Error Scheduling Interview"
                /\ schedOutcome' = "failed"
                /\ UNCHANGED <<appStatus, scheduledDateTime, selectedApplicationId,
                               fetchJobsPending, fetchingApplications>>
        /\ loading' = FALSE
        /\ schedPc' = "idle"
        /\ UNCHANGED <<variant, interviews, applications, submittedId, fetchAppsPending,
                       notSched>>

(***************************************************************************)
(* CandidatePoolList                                                       *)
(***************************************************************************)
\* ai_match_score is undefined until a ranking has stored it
Unranked == [kind |-> "undefined", v |-> 0]

\* the candidates and jobs tables: each row has an embedding or not
CandidateTables ==
    {[i \in 1..NumCandidates |-> [id |-> i, embedding |-> f[i], ai_match_score |-> Unranked]] :
        f \in [1..NumCandidates -> BOOLEAN]}
JobTables ==
    {[i \in 1..NumJobs |-> [id |-> i, embedding |-> f[i]]] : f \in [1..NumJobs -> BOOLEAN]}

\* a changed call: two equal embeddings are passed instead of the ids
scoreForEmbeddings(candidateId, jobId) == gptCalculateMatchScore(List(<<1>>), List(<<1>>))

\* gptOSSService.calculateMatchScore(candidate.id, selectedJob.id): the arguments are
\* the two ids, strings, so jobEmbedding.reduce is not a function; the TypeError is
\* caught inside calculateMatchScore, which returns 0
scoreForIds(candidateId, jobId) == Num(0)

\* a changed callback: a candidate with a missing embedding is passed on as it is
rankOneSkippingMissing(c, selectedJob) ==
    IF ~c.embedding \/ ~selectedJob.embedding
    THEN c
    ELSE [c EXCEPT !.ai_match_score = scoreForIds(c.id, selectedJob.id)]

\* one element of the candidates.map of rankCandidatesForJob
rankOne(c, selectedJob) ==
    IF ~c.embedding \/ ~selectedJob.embedding
    THEN [c EXCEPT !.ai_match_score = Num(0)]
    ELSE [c EXCEPT !.ai_match_score = scoreForIds(c.id, selectedJob.id)]

\* a.ai_match_score || 0
ScoreOrZero(c) == IF c.ai_match_score.kind = "num" THEN c.ai_match_score.v ELSE 0

RECURSIVE InsertByScore(_, _)
\* c put into the sorted list s, after the elements that do not score less
InsertByScore(s, c) ==
    IF s = <<>> THEN <<c>>
    ELSE IF ScoreOrZero(Head(s)) >= ScoreOrZero(c) THEN <<Head(s)>> \o InsertByScore(Tail(s), c)
    ELSE <<c>> \o s

RECURSIVE SortByScore(_)
\* rankedCandidates.sort((a, b) => (b.ai_match_score || 0) - (a.ai_match_score || 0)), stable
SortByScore(s) ==
    IF s = <<>> THEN <<>>
    ELSE InsertByScore(SortByScore(SubSeq(s, 1, Len(s) - 1)), s[Len(s)])

\* the list rankCandidatesForJob stores for the candidates it captured
rankedList(cands, selectedJob) ==
    SortByScore([i \in 1..Len(cands) |-> rankOne(cands[i], selectedJob)])

JobFound(jobId) == \E i \in 1..Len(poolJobs) : poolJobs[i].id = jobId
JobWithId(jobId) == poolJobs[CHOOSE i \in 1..Len(poolJobs) : poolJobs[i].id = jobId]

PoolInit ==
    /\ poolCandidates = <<>>
    /\ poolJobs = <<>>
    /\ selectedJobId = 0
    /\ poolLoading = TRUE
    /\ poolFetching = TRUE       \* the mount effect has called fetchJobsAndCandidates
    /\ effectPending = FALSE
    /\ rankInFlight = <<>>
    /\ rankTriggers = 0
    /\ rankStarted = 0
    /\ rankStored = 0
    /\ poolToast = "none"
    /\ poolLogged = FALSE

\* fetchJobsAndCandidates returns: both queries succeeded, or one of them failed
PoolFetchReturn ==
    \E outcome \in {"ok", "jobs failed", "candidates failed"},
       jobsData \in JobTables \cup {<<>>}, candidatesData \in CandidateTables \cup {<<>>} :
        /\ poolFetching
        /\ poolFetching' = FALSE
        /\ poolLoading' = FALSE
        /\ poolJobs' = IF outcome = "jobs failed" THEN poolJobs ELSE jobsData
        /\ outcome # "ok" => candidatesData = <<>>
        /\ outcome = "jobs failed" => jobsData = <<>>
        /\ IF outcome = "ok"
           THEN /\ poolCandidates' = candidatesData
                /\ selectedJobId' = IF Len(jobsData) > 0 THEN jobsData[1].id ELSE selectedJobId
                /\ UNCHANGED <<poolToast, poolLogged>>
           ELSE /\ poolToast' = "Error"
                /\ poolLogged' = TRUE
                /\ UNCHANGED <<poolCandidates, selectedJobId>>
        /\ effectPending' = (outcome # "jobs failed")     \* setJobs stored a new array
        /\ rankTriggers' = IF selectedJobId' # selectedJobId THEN 1 ELSE 0
        /\ UNCHANGED <<rankInFlight, rankStarted, rankStored, notPool>>

\* rankCandidatesForJob(jobId) up to its await, in the state it is called in
StartRanking(jobId) ==
    IF ~JobFound(jobId)
    THEN /\ poolToast' = "Error"
         /\ poolLoading' = FALSE
         /\ UNCHANGED <<rankInFlight, rankStarted>>
    ELSE /\ poolLoading' = TRUE
         /\ rankInFlight' = Append(rankInFlight, [job |-> JobWithId(jobId), candidates |-> poolCandidates])
         /\ rankStarted' = rankStarted + 1
         /\ UNCHANGED poolToast

\* the effect on [selectedJobId, candidates, jobs] runs after a render that changed one
RankingEffect ==
    /\ effectPending
    /\ effectPending' = FALSE
    /\ IF selectedJobId # 0
       THEN /\ rankStarted < MaxRankRuns
            /\ StartRanking(selectedJobId)
       ELSE UNCHANGED <<poolToast, poolLoading, rankInFlight, rankStarted>>
    /\ UNCHANGED <<poolCandidates, poolJobs, selectedJobId, poolFetching, rankTriggers,
                   rankStored, poolLogged, notPool>>

\* Promise.all resolves in the oldest run: the sorted list is stored
RankingReturn ==
    /\ rankInFlight # <<>>
    /\ poolCandidates' = rankedList(Head(rankInFlight).candidates, Head(rankInFlight).job)
    /\ rankInFlight' = Tail(rankInFlight)
    /\ rankStored' = rankStored + 1
    /\ effectPending' = TRUE         \* setCandidates stored a new array
    /\ poolLoading' = FALSE
    /\ UNCHANGED <<poolJobs, selectedJobId, poolFetching, rankTriggers, rankStarted, poolToast,
                   poolLogged, notPool>>

\* the user picks another job in the select
SelectJob ==
    \E i \in 1..Len(poolJobs) :
        /\ ~(poolLoading /\ Len(poolCandidates) = 0)
        /\ poolJobs[i].id # selectedJobId
        /\ rankTriggers < MaxRankRuns
        /\ selectedJobId' = poolJobs[i].id
        /\ effectPending' = TRUE
        /\ rankTriggers' = rankTriggers + 1
        /\ UNCHANGED <<poolCandidates, poolJobs, poolLoading, poolFetching, rankInFlight,
                       rankStarted, rankStored, poolToast, poolLogged, notPool>>

\* the user presses Re-rank Candidates, which the last render shows enabled
\* (it is disabled while loading)
PressRerank ==
    /\ selectedJobId # 0 /\ ~poolLoading
    /\ rankTriggers < MaxRankRuns /\ rankStarted < MaxRankRuns
    /\ StartRanking(selectedJobId)
    /\ rankTriggers' = rankTriggers + 1
    /\ UNCHANGED <<poolCandidates, poolJobs, selectedJobId, poolFetching, effectPending,
                   rankStored, poolLogged, notPool>>

(***************************************************************************)
(* The dashboards: RecruiterDashboard.fetchRecruiterStats                  *)
(* (src/components/recruiter-dashboard.tsx) and                            *)
(* CandidateDashboard.fetchDashboardData (src/unnamed/part_002)            *)
(***************************************************************************)
StatsQueries == 5       \* jobs, candidates, recruiter's jobs, applications, interviews
StatsDone == StatsQueries + 1
DashQueries == 3        \* candidates, applications, interviews
DashDone == DashQueries + 1
Counts == 0..MaxCount

NoRecruiterStats ==
    [activeJobs |-> 0, totalCandidates |-> 0, shortlistedCandidates |-> 0,
     interviewsScheduled |-> 0]
NoCandidateStats == [totalApplications |-> 0, interviewsScheduled |-> 0]

DashInit ==
    /\ statsPc = 0
    /\ statsCounts = <<>>
    /\ recruiterStats = NoRecruiterStats
    /\ statsLoading = TRUE
    /\ statsFailed = FALSE
    /\ statsLogged = FALSE
    /\ statsToast = "none"
    /\ dashPc = 0
    /\ dashApplications = <<>>
    /\ candidateStats = NoCandidateStats
    /\ dashLoading = TRUE
    /\ dashFailed = FALSE
    /\ dashLogged = FALSE
    /\ dashToast = "none"

recruiterDashVars ==
    <<statsPc, statsCounts, recruiterStats, statsLoading, statsFailed, statsLogged, statsToast>>
candidateDashVars ==
    <<dashPc, dashApplications, candidateStats, dashLoading, dashFailed, dashLogged, dashToast>>

\* the effect on [profile] calls fetchRecruiterStats
FetchRecruiterStats ==
    /\ statsPc \in {0, StatsDone}
    /\ statsPc' = 1
    /\ statsCounts' = <<>>
    /\ statsLoading' = TRUE
    /\ statsFailed' = FALSE
    /\ statsLogged' = FALSE
    /\ statsToast' = "none"
    /\ UNCHANGED <<recruiterStats, candidateDashVars, notDash>>

\* one of the five queries returns: a count, or an error, which is thrown
StatsQueryReturn ==
    \E failed \in BOOLEAN, count \in Counts :
        /\ statsPc \in 1..StatsQueries
        /\ IF failed
           THEN /\ statsFailed' = TRUE
                /\ statsLogged' = TRUE          \* the catch block: console.error only
                /\ statsLoading' = FALSE
                /\ statsPc' = StatsDone
                /\ UNCHANGED <<statsCounts, recruiterStats>>
           ELSE /\ statsCounts' = Append(statsCounts, count)
                /\ statsPc' = statsPc + 1
                /\ IF statsPc = StatsQueries
                   THEN /\ recruiterStats' =
                              [activeJobs |-> statsCounts'[1],
                               totalCandidates |-> statsCounts'[2],
                               shortlistedCandidates |-> statsCounts'[4],
                               interviewsScheduled |-> statsCounts'[5]]
                        /\ statsLoading' = FALSE
                   ELSE UNCHANGED <<recruiterStats, statsLoading>>
                /\ UNCHANGED <<statsFailed, statsLogged>>
        /\ UNCHANGED <<statsToast, candidateDashVars, notDash>>

\* the effect on [profile] calls fetchDashboardData
FetchDashboardData ==
    /\ dashPc \in {0, DashDone}
    /\ dashPc' = 1
    /\ dashApplications' = <<>>
    /\ dashLoading' = TRUE
    /\ dashFailed' = FALSE
    /\ dashLogged' = FALSE
    /\ dashToast' = "none"
    /\ UNCHANGED <<candidateStats, recruiterDashVars, notDash>>

\* one of the three queries returns; the error field is never read, so a failed
\* query only leaves data null
DashQueryReturn ==
    \E failed \in BOOLEAN, count \in Counts :
        /\ dashPc \in 1..DashQueries
        /\ dashFailed' = (dashFailed \/ failed)
        /\ IF dashPc = 1
           THEN \* the candidates row
                /\ IF failed
                   THEN dashPc' = DashDone /\ dashLoading' = FALSE
                   ELSE dashPc' = 2 /\ UNCHANGED dashLoading
                /\ UNCHANGED <<dashApplications, candidateStats>>
           ELSE IF dashPc = 2
           THEN \* the applications
                /\ dashApplications' = IF failed THEN <<>> ELSE <<count>>
                /\ dashPc' = 3
                /\ UNCHANGED <<candidateStats, dashLoading>>
           ELSE \* the interviews; applicationsData?.length || 0 and interviews?.length || 0
                /\ candidateStats' =
                      [totalApplications |->
                           IF dashApplications = <<>> THEN 0 ELSE dashApplications[1],
                       interviewsScheduled |-> IF failed THEN 0 ELSE count]
                /\ dashLoading' = FALSE
                /\ dashPc' = DashDone
                /\ UNCHANGED dashApplications
        /\ UNCHANGED <<dashLogged, dashToast, recruiterDashVars, notDash>>

(***************************************************************************)
(* Two calls of AIService.calculateMatchScore whose candidates rows differ *)
(* in one column                                                           *)
(***************************************************************************)
\* embeddings as the VECTOR columns store them: all of one dimension
StoredEmbeddings == {List(v) : v \in {w \in Vectors : Len(w) = MaxDim}}

BlendInit ==
    /\ blendPc = "job"
    /\ blendJob = NoJob
    /\ blendLow = NoCandidate
    /\ blendHigh = NoCandidate
    /\ blendScoreLow = Num(0)
    /\ blendScoreHigh = Num(0)

\* the jobs row both calls will find
BlendChooseJob ==
    /\ blendPc = "job"
    /\ blendJob' \in {r \in JobRows : r.embedding \in StoredEmbeddings}
    /\ blendPc' = "low"
    /\ UNCHANGED <<blendLow, blendHigh, blendScoreLow, blendScoreHigh, notBlend>>

\* the first call finds a candidates row and returns
BlendFirstCall ==
    /\ blendPc = "low"
    /\ blendLow' \in {r \in CandidateRows : r.embedding \in StoredEmbeddings}
    /\ blendScoreLow' = scoreOf(blendLow', blendJob).value
    /\ blendPc' = "high"
    /\ UNCHANGED <<blendJob, blendHigh, blendScoreHigh, notBlend>>

\* the second call finds the same row with one column changed and returns
BlendSecondCall ==
    /\ blendPc = "high"
    /\ \/ \E e \in StoredEmbeddings : blendHigh' = [blendLow EXCEPT !.embedding = e]
       \/ \E k \in SkillLists : blendHigh' = [blendLow EXCEPT !.skills = k]
       \/ \E y \in ExperienceYears : blendHigh' = [blendLow EXCEPT !.experience_years = y]
    /\ blendHigh' # blendLow
    /\ blendScoreHigh' = scoreOf(blendHigh', blendJob).value
    /\ blendPc' = "applied"
    /\ UNCHANGED <<blendJob, blendLow, blendScoreLow, notBlend>>

\* the next pair of calls
BlendAgain ==
    /\ blendPc = "applied"
    /\ blendPc' = "job"
    /\ blendJob' = NoJob
    /\ blendLow' = NoCandidate
    /\ blendHigh' = NoCandidate
    /\ blendScoreLow' = Num(0)
    /\ blendScoreHigh' = Num(0)
    /\ UNCHANGED notBlend

(***************************************************************************)
(* AuthProvider (src/lib/auth-context.tsx)                                 *)
(***************************************************************************)
\* the accounts: a candidate and a recruiter
Users == {1, 2}

\* profiles.role of the account
RoleOf(u) == IF u = 1 THEN "candidate" ELSE "recruiter"

\* the values a text column takes: the stored one and an edited one
Texts == {0, 1}

NoProfile == [id |-> 0, role |-> "none", full_name |-> 0]
NoCandidateProfile == [profile_id |-> 0, location |-> 0]

\* the profiles row and the candidates row of a user
ProfileRow(u) == [id |-> u, role |-> RoleOf(u), full_name |-> profilesTable[u]]
CandidateRow(u) == [profile_id |-> u, location |-> candidatesTable[u]]

AuthInit ==
    /\ user = 0
    /\ profile = NoProfile
    /\ candidateProfile = NoCandidateProfile
    /\ authLoading = TRUE
    /\ sessionPending = TRUE         \* the effect has called initializeAuth
    /\ authFetches = {}
    /\ authEvents = <<>>
    /\ signInPending = {}
    /\ signUpPending = {}
    /\ updatePending = {}
    /\ updateOutcome = "none"
    /\ authCalls = 0
    /\ profilesTable = [u \in Users |-> 0]
    /\ candidatesTable = [u \in Users |-> 0]

\* fetchUserData(userId) up to its first await
StartFetch(userId) == authFetches' = authFetches \cup {[user |-> userId, stage |-> "profile"]}

\* initializeAuth: getSession returns an error, no session (user 0), or a session
GetSessionReturn ==
    \E failed \in BOOLEAN, sessionUser \in {0} \cup Users :
        /\ sessionPending
        /\ sessionPending' = FALSE
        /\ IF ~failed /\ sessionUser # 0
           THEN /\ user' = sessionUser
                /\ StartFetch(sessionUser)
                /\ UNCHANGED authLoading
           ELSE /\ authLoading' = FALSE
                /\ UNCHANGED <<user, authFetches>>
        /\ UNCHANGED <<profile, candidateProfile, authEvents, signInPending, signUpPending,
                       updatePending, updateOutcome, authCalls, profilesTable,
                       candidatesTable, notAuth>>

\* the onAuthStateChange callback runs for the oldest event
AuthStateChange ==
    /\ authEvents # <<>>
    /\ authEvents' = Tail(authEvents)
    /\ user' = Head(authEvents).user
    /\ IF Head(authEvents).user # 0
       THEN /\ StartFetch(Head(authEvents).user)
            /\ UNCHANGED <<profile, candidateProfile, authLoading>>
       ELSE /\ profile' = NoProfile
            /\ candidateProfile' = NoCandidateProfile
            /\ authLoading' = FALSE
            /\ UNCHANGED authFetches
    /\ UNCHANGED <<sessionPending, signInPending, signUpPending, updatePending,
                   updateOutcome, authCalls, profilesTable, candidatesTable, notAuth>>

\* fetchUserData: the profiles query returns
FetchProfileReturn ==
    \E f \in authFetches, outcome \in {"ok", "not found", "error"} :
        /\ f.stage = "profile"
        /\ IF outcome = "ok"
           THEN /\ profile' = ProfileRow(f.user)
                /\ IF RoleOf(f.user) = "candidate"
                   THEN /\ authFetches' = (authFetches \ {f})
                                          \cup {[user |-> f.user, stage |-> "candidate"]}
                        /\ UNCHANGED authLoading
                   ELSE /\ authFetches' = authFetches \ {f}
                        /\ authLoading' = FALSE
           ELSE /\ authFetches' = authFetches \ {f}
                /\ authLoading' = FALSE
                /\ UNCHANGED profile
        /\ UNCHANGED <<user, candidateProfile, sessionPending, authEvents, signInPending,
                       signUpPending, updatePending, updateOutcome, authCalls, profilesTable,
                       candidatesTable, notAuth>>

\* fetchUserData: the candidates query returns
FetchCandidateReturn ==
    \E f \in authFetches, outcome \in {"ok", "not found", "error"} :
        /\ f.stage = "candidate"
        /\ authFetches' = authFetches \ {f}
        /\ candidateProfile' = IF outcome = "ok" THEN CandidateRow(f.user) ELSE candidateProfile
        /\ authLoading' = FALSE
        /\ UNCHANGED <<user, profile, sessionPending, authEvents, signInPending,
                       signUpPending, updatePending, updateOutcome, authCalls, profilesTable,
                       candidatesTable, notAuth>>

\* a changed signIn: the catch block leaves loading as it is
loadingAfterSignInKept(ok, before) == before

\* loading once signInWithPassword has returned: the catch block sets it to false
loadingAfterSignIn(ok, before) == IF ok THEN before ELSE FALSE

\* signIn(email, password) is called
SignInCall ==
    \E u \in Users :
        /\ authCalls < MaxAuthCalls
        /\ authCalls' = authCalls + 1
        /\ authLoading' = TRUE
        /\ signInPending' = signInPending \cup {u}
        /\ UNCHANGED <<user, profile, candidateProfile, sessionPending, authFetches,
                       authEvents, signUpPending, updatePending, updateOutcome,
                       profilesTable, candidatesTable, notAuth>>

\* signInWithPassword returns: a session, which raises SIGNED_IN, or an error
SignInReturn ==
    \E u \in signInPending, ok \in BOOLEAN :
        /\ signInPending' = signInPending \ {u}
        /\ authEvents' = IF ok THEN Append(authEvents, [event |-> "SIGNED_IN", user |-> u])
                         ELSE authEvents
        /\ authLoading' = loadingAfterSignIn(ok, authLoading)
        /\ UNCHANGED <<user, profile, candidateProfile, sessionPending, authFetches,
                       signUpPending, updatePending, updateOutcome, authCalls,
                       profilesTable, candidatesTable, notAuth>>

\* signUp(email, password, fullName, role) is called
SignUpCall ==
    \E u \in Users :
        /\ authCalls < MaxAuthCalls
        /\ authCalls' = authCalls + 1
        /\ authLoading' = TRUE
        /\ signUpPending' = signUpPending \cup {[user |-> u, stage |-> "auth"]}
        /\ UNCHANGED <<user, profile, candidateProfile, sessionPending, authFetches,
                       authEvents, signInPending, updatePending, updateOutcome,
                       profilesTable, candidatesTable, notAuth>>

\* supabase.auth.signUp returns: an error or no user, or the new user, with a
\* session (which raises SIGNED_IN) or without one
SignUpReturn ==
    \E p \in signUpPending, outcome \in {"error", "user", "user and session"} :
        /\ p.stage = "auth"
        /\ IF outcome = "error"
           THEN /\ signUpPending' = signUpPending \ {p}
                /\ authLoading' = FALSE
                /\ UNCHANGED authEvents
           ELSE /\ signUpPending' = (signUpPending \ {p})
                                    \cup {[user |-> p.user, stage |-> "insert"]}
                /\ authEvents' =
                      IF outcome = "user and session"
                      THEN Append(authEvents, [event |-> "SIGNED_IN", user |-> p.user])
                      ELSE authEvents
                /\ UNCHANGED authLoading
        /\ UNCHANGED <<user, profile, candidateProfile, sessionPending, authFetches,
                       signInPending, updatePending, updateOutcome, authCalls,
                       profilesTable, candidatesTable, notAuth>>

\* signUp: the wait and the inserts are over (their errors are only logged) and
\* fetchUserData is called
SignUpInserted ==
    \E p \in signUpPending :
        /\ p.stage = "insert"
        /\ signUpPending' = signUpPending \ {p}
        /\ StartFetch(p.user)
        /\ UNCHANGED <<user, profile, candidateProfile, authLoading, sessionPending,
                       authEvents, signInPending, updatePending, updateOutcome, authCalls,
                       profilesTable, candidatesTable, notAuth>>

\* signOut() succeeds, or the session ends or changes outside this page: the
\* client raises an auth state change (user 0 for SIGNED_OUT)
AuthChangeRaised ==
    \E u \in {0} \cup Users :
        /\ authCalls < MaxAuthCalls
        /\ authCalls' = authCalls + 1
        /\ authEvents' = Append(authEvents,
                                [event |-> IF u = 0 THEN "SIGNED_OUT" ELSE "SIGNED_IN",
                                 user |-> u])
        /\ UNCHANGED <<user, profile, candidateProfile, authLoading, sessionPending,
                       authFetches, signInPending, signUpPending, updatePending,
                       updateOutcome, profilesTable, candidatesTable, notAuth>>

\* a changed merge: the cache takes the updates whatever the remote update did
mergedProfileRegardless(prev, ok, value) ==
    IF prev # NoProfile THEN [prev EXCEPT !.full_name = value] ELSE prev

\* updateProfile after the remote update returned:
\* setProfile((prev) => (prev ? { ...prev, ...updates } : null)) on success
mergedProfile(prev, ok, value) ==
    IF ok /\ prev # NoProfile THEN [prev EXCEPT !.full_name = value] ELSE prev

\* updateCandidateProfile after the remote update returned
mergedCandidateProfile(prev, ok, value) ==
    IF ok /\ prev # NoCandidateProfile THEN [prev EXCEPT !.location = value] ELSE prev

\* updateProfile(updates) is called: it returns at once when no user is signed in
UpdateProfileCall ==
    \E value \in Texts :
        /\ updateOutcome # "pending"
        /\ IF user = 0
           THEN /\ updateOutcome' = "skipped"
                /\ UNCHANGED <<updatePending, authCalls>>
           ELSE /\ authCalls < MaxAuthCalls
                /\ authCalls' = authCalls + 1
                /\ updatePending' = updatePending
                      \cup {[target |-> "profile", user |-> user, value |-> value]}
                /\ updateOutcome' = "pending"
        /\ UNCHANGED <<user, profile, candidateProfile, authLoading, sessionPending,
                       authFetches, authEvents, signInPending, signUpPending,
                       profilesTable, candidatesTable, notAuth>>

\* updateCandidateProfile(updates) is called: it returns at once when no user is
\* signed in or the cached profile is not a candidate's
UpdateCandidateProfileCall ==
    \E value \in Texts :
        /\ updateOutcome # "pending"
        /\ IF user = 0 \/ profile.role # "candidate"
           THEN /\ updateOutcome' = "skipped"
                /\ UNCHANGED <<updatePending, authCalls>>
           ELSE /\ authCalls < MaxAuthCalls
                /\ authCalls' = authCalls + 1
                /\ updatePending' = updatePending
                      \cup {[target |-> "candidate", user |-> user, value |-> value]}
                /\ updateOutcome' = "pending"
        /\ UNCHANGED <<user, profile, candidateProfile, authLoading, sessionPending,
                       authFetches, authEvents, signInPending, signUpPending,
                       profilesTable, candidatesTable, notAuth>>

\* the remote update p of either function returns, with or without an error
UpdateReturnOf(p, ok) ==
    /\ p \in updatePending
    /\ updatePending' = updatePending \ {p}
    /\ updateOutcome' = IF ok THEN "resolved" ELSE "rethrown"
    /\ IF p.target = "profile"
       THEN /\ profilesTable' =
                  IF ok THEN [profilesTable EXCEPT ![p.user] = p.value] ELSE profilesTable
            /\ profile' = mergedProfile(profile, ok, p.value)
            /\ UNCHANGED <<candidatesTable, candidateProfile>>
       ELSE /\ candidatesTable' =
                  IF ok THEN [candidatesTable EXCEPT ![p.user] = p.value]
                  ELSE candidatesTable
            /\ candidateProfile' = mergedCandidateProfile(candidateProfile, ok, p.value)
            /\ UNCHANGED <<profilesTable, profile>>
    /\ UNCHANGED <<user, authLoading, sessionPending, authFetches, authEvents,
                   signInPending, signUpPending, authCalls, notAuth>>

\* the remote update of either function returns
UpdateReturn == \E p \in updatePending, ok \in BOOLEAN : UpdateReturnOf(p, ok)

(***************************************************************************)
(* UpcomingInterviews                                                      *)
(***************************************************************************)
InterviewIds == 1..NumInterviewRows

\* CREATE TYPE interview_status
InterviewStatuses == {"scheduled", "in_progress", "completed", "cancelled"}

\* .in("status", ["scheduled", "in_progress"]): id and status of the rows, in table order
OpenInterviews(status) ==
    LET RECURSIVE Rows(_, _)
        Rows(i, acc) ==
            IF i > NumInterviewRows THEN acc
            ELSE Rows(i + 1, IF status[i] \in {"scheduled", "in_progress"}
                             THEN Append(acc, [id |-> i, status |-> status[i]])
                             ELSE acc)
    IN  Rows(1, <<>>)

\* before the component mounts
UpcomingInit ==
    /\ upMounted = FALSE
    /\ upStatus = [i \in InterviewIds |-> "scheduled"]
    /\ upInterviews = <<>>
    /\ upLoading = TRUE
    /\ upFetches = 0
    /\ upStarts = [i \in InterviewIds |-> 0]
    /\ upStartsMade = 0
    /\ upToast = "none"
    /\ upLogged = FALSE

\* the component mounts over any interviews table; the effect calls fetchInterviews
MountUpcoming ==
    \E status \in [InterviewIds -> InterviewStatuses] :
        /\ ~upMounted
        /\ upMounted' = TRUE
        /\ upStatus' = status
        /\ upFetches' = 1
        /\ UNCHANGED <<upInterviews, upLoading, upStarts, upStartsMade, upToast, upLogged,
                       notUpcoming>>

\* user or profile changes and the effect calls fetchInterviews again
UpcomingEffect ==
    /\ upMounted
    /\ upFetches < MaxFetches
    /\ upFetches' = upFetches + 1
    /\ UNCHANGED <<upMounted, upStatus, upInterviews, upLoading, upStarts, upStartsMade,
                   upToast, upLogged, notUpcoming>>

\* the query of fetchInterviews returns
UpcomingFetchReturn ==
    \E ok \in BOOLEAN :
        /\ upFetches > 0
        /\ upFetches' = upFetches - 1
        /\ IF ok
           THEN /\ upInterviews' = OpenInterviews(upStatus)
                /\ UNCHANGED <<upToast, upLogged>>
           ELSE /\ upLogged' = TRUE
                /\ upToast' = "Error"
                /\ UNCHANGED upInterviews
        /\ upLoading' = FALSE
        /\ UNCHANGED <<upMounted, upStatus, upStarts, upStartsMade, notUpcoming>>

\* the Start Interview button is rendered for a listed interview
startButtonShown(listed) == listed.status = "scheduled"

\* the user presses Start Interview on row i of the list: startInterview sends the update
PressStartOf(i) ==
    /\ upMounted /\ ~upLoading
    /\ i \in 1..Len(upInterviews)
    /\ startButtonShown(upInterviews[i])
    /\ upStartsMade < MaxStarts
    /\ upStartsMade' = upStartsMade + 1
    /\ upStarts' = [upStarts EXCEPT ![upInterviews[i].id] = @ + 1]
    /\ UNCHANGED <<upMounted, upStatus, upInterviews, upLoading, upFetches, upToast, upLogged,
                   notUpcoming>>

PressStart == \E i \in 1..Len(upInterviews) : PressStartOf(i)

\* the update of startInterview for interview id returns
StartReturnOf(id, ok) ==
    /\ upStarts[id] > 0
    /\ upStarts' = [upStarts EXCEPT ![id] = @ - 1]
    /\ IF ok
       THEN /\ upStatus' = [upStatus EXCEPT ![id] = "in_progress"]
            /\ upToast' = "Interview Started"
            /\ UNCHANGED upLogged
       ELSE /\ upLogged' = TRUE
            /\ upToast' = "Error"
            /\ UNCHANGED upStatus
    /\ UNCHANGED <<upMounted, upInterviews, upLoading, upFetches, upStartsMade, notUpcoming>>

StartReturn == \E id \in InterviewIds, ok \in BOOLEAN : StartReturnOf(id, ok)

(***************************************************************************)
(* UpcomingInterviews with Start / Join / Resume                           *)
(***************************************************************************)
Times == 0..MaxTime

\* 30 * 60 * 1000 ms, in units of ten minutes
SoonWindow == 3

NotOpened == [at |-> 0, status |-> "none"]

\* timeDiff > 0 && timeDiff <= 30 * 60 * 1000, with new Date() read as now
isInterviewSoon(scheduledAt, now) ==
    scheduledAt - now > 0 /\ scheduledAt - now <= SoonWindow

\* the button of a listed interview as the last render left it: Start / Join for
\* 'scheduled' (disabled unless soon), Resume for 'in_progress', none otherwise
ButtonEnabled(listed) ==
    \/ listed.status = "scheduled" /\ isInterviewSoon(listed.scheduled_at, viewRenderedAt)
    \/ listed.status = "in_progress"

\* before the component mounts
ViewInit ==
    /\ viewMounted = FALSE
    /\ viewNow = 0
    /\ viewScheduledAt = 0
    /\ viewStatus = "scheduled"
    /\ viewInterviews = <<>>
    /\ viewLoading = TRUE
    /\ viewFetches = 0
    /\ viewRenderedAt = 0
    /\ viewOpened = NotOpened

\* the component mounts at any time over any interview; the effect calls fetchInterviews
MountView ==
    \E now \in Times, at \in Times, status \in InterviewStatuses :
        /\ ~viewMounted
        /\ viewMounted' = TRUE
        /\ viewNow' = now
        /\ viewRenderedAt' = now
        /\ viewScheduledAt' = at
        /\ viewStatus' = status
        /\ viewFetches' = 1
        /\ UNCHANGED <<viewInterviews, viewLoading, viewOpened, notView>>

\* time passes; nothing renders
ClockTick ==
    /\ viewMounted
    /\ viewNow < MaxTime
    /\ viewNow' = viewNow + 1
    /\ UNCHANGED <<viewMounted, viewScheduledAt, viewStatus, viewInterviews, viewLoading,
                   viewFetches, viewRenderedAt, viewOpened, notView>>

\* profile or user changes: the effect calls fetchInterviews, which sets loading
ViewEffect ==
    /\ viewMounted
    /\ viewFetches < MaxFetches
    /\ viewFetches' = viewFetches + 1
    /\ viewLoading' = TRUE
    /\ viewRenderedAt' = viewNow
    /\ UNCHANGED <<viewMounted, viewNow, viewScheduledAt, viewStatus, viewInterviews,
                   viewOpened, notView>>

\* the query of fetchInterviews returns; the state changes render the component
ViewFetchReturn ==
    \E ok \in BOOLEAN :
        /\ viewFetches > 0
        /\ viewFetches' = viewFetches - 1
        /\ viewInterviews' =
              IF ok THEN <<[scheduled_at |-> viewScheduledAt, status |-> viewStatus]>>
              ELSE viewInterviews
        /\ viewLoading' = FALSE
        /\ viewRenderedAt' = viewNow
        /\ UNCHANGED <<viewMounted, viewNow, viewScheduledAt, viewStatus, viewOpened, notView>>

\* the user presses the enabled button of listed interview i: handleStartInterview
\* or handleJoinInterview opens the session
PressButtonOf(i) ==
    /\ viewMounted /\ ~viewLoading
    /\ i \in 1..Len(viewInterviews)
    /\ ButtonEnabled(viewInterviews[i])
    /\ viewOpened # [at |-> viewNow, status |-> viewInterviews[i].status]
    /\ viewOpened' = [at |-> viewNow, status |-> viewInterviews[i].status]
    /\ UNCHANGED <<viewMounted, viewNow, viewScheduledAt, viewStatus, viewInterviews,
                   viewLoading, viewFetches, viewRenderedAt, notView>>

PressButton == \E i \in 1..Len(viewInterviews) : PressButtonOf(i)

(***************************************************************************)
(* CandidateProfileForm                                                    *)
(***************************************************************************)
\* skill names; parsedSkills is a string[], so s.name of each element is undefined
SkillNames == {1, 2}
UndefinedName == 0

\* parsedSkills.map((s: any) => s.name)
newSkillsOf(parsedSkills) == {UndefinedName : s \in parsedSkills}

\* before anything is entered; the profile has no skills yet
FormInit ==
    /\ formPc = "idle"
    /\ formLoading = FALSE
    /\ formSkills = {}
    /\ resumeSelected = FALSE
    /\ resumeMentions = {}
    /\ formClosure = [skills |-> {}, resumeFile |-> FALSE]
    /\ formWritten = {}
    /\ formReads = <<>>
    /\ formSubmits = 0
    /\ formToast = "none"

\* handleAddSkill
HandleAddSkill ==
    \E s \in SkillNames :
        /\ s \notin formSkills
        /\ formSkills' = formSkills \cup {s}
        /\ UNCHANGED <<formPc, formLoading, resumeSelected, resumeMentions, formClosure,
                       formWritten, formReads, formSubmits, formToast, notForm>>

\* handleRemoveSkill
HandleRemoveSkill ==
    \E s \in formSkills :
        /\ formSkills' = formSkills \ {s}
        /\ UNCHANGED <<formPc, formLoading, resumeSelected, resumeMentions, formClosure,
                       formWritten, formReads, formSubmits, formToast, notForm>>

\* handleResumeUpload: a file is chosen
HandleResumeUpload ==
    \E mentions \in SUBSET SkillNames :
        /\ ~resumeSelected
        /\ resumeSelected' = TRUE
        /\ resumeMentions' = mentions
        /\ UNCHANGED <<formPc, formLoading, formSkills, formClosure, formWritten, formReads,
                       formSubmits, formToast, notForm>>

\* handleSubmit up to await updateProfile (the button is disabled while loading)
SubmitForm ==
    /\ formPc = "idle" /\ ~formLoading
    /\ formSubmits < MaxSubmits
    /\ formSubmits' = formSubmits + 1
    /\ formLoading' = TRUE
    /\ formClosure' = [skills |-> formSkills, resumeFile |-> resumeSelected]
    /\ formPc' = "updateProfile"
    /\ UNCHANGED <<formSkills, resumeSelected, resumeMentions, formWritten, formReads,
                   formToast, notForm>>

\* updateProfile returns or throws; on return the reader is started for a selected
\* file and updateCandidateProfile is called in the same run, with the handler's skills
FormUpdateProfileReturn ==
    \E ok \in BOOLEAN :
        /\ formPc = "updateProfile"
        /\ IF ok
           THEN /\ formReads' = IF formClosure.resumeFile
                                THEN Append(formReads, resumeMentions) ELSE formReads
                /\ formWritten' = formClosure.skills
                /\ formPc' = "updateCandidate"
                /\ UNCHANGED <<formLoading, formToast>>
           ELSE /\ formToast' = "Error Saving Profile"
                /\ formLoading' = FALSE
                /\ formPc' = "idle"
                /\ UNCHANGED <<formReads, formWritten>>
        /\ UNCHANGED <<formSkills, resumeSelected, resumeMentions, formClosure, formSubmits,
                       notForm>>

\* reader.onload and parseResumeSkills have run for the oldest read: setSkills merges
ParseResumeReturn ==
    \E ok \in BOOLEAN :
        /\ formReads # <<>>
        /\ formReads' = Tail(formReads)
        /\ IF ok
           THEN /\ formSkills' = formSkills \cup newSkillsOf(Head(formReads))
                /\ formToast' = "AI Skill Parsing"
           ELSE /\ formToast' = "AI Skill Parsing Failed"
                /\ UNCHANGED formSkills
        /\ UNCHANGED <<formPc, formLoading, resumeSelected, resumeMentions, formClosure,
                       formWritten, formSubmits, notForm>>

\* updateCandidateProfile returns or throws; on success candidateProfile changes and
\* the effect on [profile, candidateProfile] sets the form's skills from it
FormUpdateCandidateReturn ==
    \E ok \in BOOLEAN :
        /\ formPc = "updateCandidate"
        /\ formPc' = "idle"
        /\ formLoading' = FALSE
        /\ IF ok
           THEN /\ formToast' = "Profile Saved!"
                /\ formSkills' = formWritten
           ELSE /\ formToast' = "Error Saving Profile"
                /\ UNCHANGED formSkills
        /\ UNCHANGED <<resumeSelected, resumeMentions, formClosure, formWritten, formReads,
                       formSubmits, notForm>>

(***************************************************************************)
(* Specifications                                                          *)
(***************************************************************************)
Init ==
    /\ MatchInit /\ CosInit /\ SessionInit /\ SchedInit /\ PoolInit /\ DashInit
    /\ BlendInit /\ AuthInit /\ UpcomingInit /\ ViewInit /\ FormInit

MatchNext == MatchStart \/ MatchLookupCandidate \/ MatchLookupJob \/ MatchCompute \/ MatchReturn
SpecMatch == Init /\ [][MatchNext]_vars

CosNext == CosChoose \/ CosApply \/ CosAgain
SpecCosine == Init /\ [][CosNext]_vars

SessionNext ==
    \/ SessionLoad \/ TimerTick \/ VisibilityChange \/ Paste \/ HandleCodeChange
    \/ HandleExplanationChange \/ ToggleRecording \/ CloseSurpriseQuestion
SpecSession == Init /\ [][SessionNext]_vars

\* the mount effect runs and a pending timeout fires after its second
SpecSessionFair == SpecSession /\ WF_vars(SessionLoad) /\ WF_vars(TimerTick)

\* a session of code and explanation edits only
ExplanationNext ==
    \/ SessionLoad \/ TimerTick \/ HandleCodeChange \/ LongExplanationChange
    \/ ToggleRecording \/ CloseSurpriseQuestion
SpecExplanation == Init /\ [][ExplanationNext]_vars

SchedNext ==
    \/ MountScheduler \/ FetchJobsReturn \/ FetchApplicationsReturn \/ SelectApplication \/ EnterDateTime
    \/ SubmitSchedule \/ InsertInterviewReturn \/ UpdateApplicationReturn
SpecSched == Init /\ [][SchedNext]_vars

PoolNext == PoolFetchReturn \/ RankingEffect \/ RankingReturn \/ SelectJob \/ PressRerank
SpecPool == Init /\ [][PoolNext]_vars

DashNext == FetchRecruiterStats \/ StatsQueryReturn \/ FetchDashboardData \/ DashQueryReturn
SpecDash == Init /\ [][DashNext]_vars

\* the steps that read or write user or loading
AuthSessionNext ==
    \/ GetSessionReturn \/ AuthStateChange \/ FetchProfileReturn \/ FetchCandidateReturn
    \/ SignInCall \/ SignInReturn \/ SignUpCall \/ SignUpReturn \/ SignUpInserted
    \/ AuthChangeRaised

AuthNext ==
    \/ AuthSessionNext
    \/ UpdateProfileCall \/ UpdateCandidateProfileCall \/ UpdateReturn
SpecAuth == Init /\ [][AuthNext]_vars

\* signing in, up and out without profile updates (which leave loading alone):
\* every awaited call returns and every raised auth event reaches the callback
SpecAuthFair ==
    /\ Init /\ [][AuthSessionNext]_vars
    /\ WF_vars(GetSessionReturn) /\ WF_vars(AuthStateChange)
    /\ WF_vars(FetchProfileReturn) /\ WF_vars(FetchCandidateReturn)
    /\ WF_vars(SignInReturn) /\ WF_vars(SignUpReturn) /\ WF_vars(SignUpInserted)

UpcomingNext == MountUpcoming \/ UpcomingEffect \/ UpcomingFetchReturn \/ PressStart \/ StartReturn
SpecUpcoming == Init /\ [][UpcomingNext]_vars

ViewNext == MountView \/ ClockTick \/ ViewEffect \/ ViewFetchReturn \/ PressButton
SpecView == Init /\ [][ViewNext]_vars

FormNext ==
    \/ HandleAddSkill \/ HandleRemoveSkill \/ HandleResumeUpload \/ SubmitForm
    \/ FormUpdateProfileReturn \/ ParseResumeReturn \/ FormUpdateCandidateReturn
SpecForm == Init /\ [][FormNext]_vars

BlendNext == BlendChooseJob \/ BlendFirstCall \/ BlendSecondCall \/ BlendAgain
SpecBlend == Init /\ [][BlendNext]_vars

(***************************************************************************)
(* Claims about the match score and the cosine similarity                  *)
(***************************************************************************)
BothFound == candidate.found /\ job.found

\* the inputs of the blend as the claim names them
ClaimedSimilarity == cosineSimilarity(candidate.embedding, job.embedding)
ClaimedSkillMatch == calculateSkillMatch(candidate.skills, job.requirements)
ClaimedExperience == calculateExperienceBonus(candidate.experience_years, job.requirements)

\* C1: when both rows are found, calculateMatchScore returns
\* 0.4 * similarity + 0.4 * skillMatch + 0.2 * experienceBonus limited to [0,1]:
\* a number of [0,1], equal to the blend where the blend lies in [0,1], 0 below
\* and 1 above.  (Stated for the rows on which the three inputs have a value.)
C1_BlendLimited ==
    (matchPc = "done" /\ BothFound
        /\ ClaimedSimilarity.kind # "throw" /\ ClaimedExperience.kind # "throw")
    => /\ IsNum(matchResult)
       /\ matchResult.v >= 0 /\ matchResult.v <= One
       /\ IsNum(ClaimedSimilarity) =>
            LET blend == (40 * ClaimedSimilarity.v + 40 * ClaimedSkillMatch.v
                          + 20 * ClaimedExperience.v) \div 100
            IN  matchResult.v = IF blend < 0 THEN 0 ELSE IF blend > 100 THEN 100 ELSE blend

\* C4: for every input, the value calculateMatchScore returns lies in [0,1]
C4_ScoreInUnitInterval ==
    matchPc = "done" => IsNum(matchResult) /\ matchResult.v >= 0 /\ matchResult.v <= One

\* C9: cosineSimilarity(a, b) = cosineSimilarity(b, a) for every pair of vectors
C9_Symmetric == cosPc = "applied" => simAB = simBA

\* C10: the similarity of both services is a number in [-1,1]
C10_Bounded ==
    cosPc = "applied" =>
        /\ IsNum(simAB) /\ simAB.v >= -One /\ simAB.v <= One
        /\ IsNum(gptAB) /\ gptAB.v >= -One /\ gptAB.v <= One

(***************************************************************************)
(* Claims about the integrity flags and the integrity score                *)
(***************************************************************************)
RECURSIVE NumberWith(_, _)
\* how many flags of the list have the severity
NumberWith(flags, sev) ==
    IF flags = <<>> THEN 0
    ELSE NumberWith(Tail(flags), sev) + (IF Head(flags).severity = sev THEN 1 ELSE 0)

\* 0.3 * high + 0.15 * medium + 0.05 * low over the current flags, in hundredths
AccumulatedPenalty ==
    30 * NumberWith(integrityFlags, "high") + 15 * NumberWith(integrityFlags, "medium")
    + 5 * NumberWith(integrityFlags, "low")

\* C2: getIntegrityScore = max(0, 1 - (0.3 * h + 0.15 * m + 0.05 * l))
C2_IntegrityScoreFormula ==
    getIntegrityScore = IF 100 - AccumulatedPenalty > 0 THEN 100 - AccumulatedPenalty ELSE 0

\* flags of all three severities are present and the score is 1 - 0.5
C2_Witness ==
    /\ NumberWith(integrityFlags, "high") = 1
    /\ NumberWith(integrityFlags, "medium") = 1
    /\ NumberWith(integrityFlags, "low") = 1
    /\ getIntegrityScore = 50

\* C3: over any sequence of session events the integrity score never increases,
\* always lies in [0,1], and stays 0 once the accumulated penalty has reached 1
C3_ScoreNonIncreasing ==
    [][/\ getIntegrityScore <= One
       /\ getIntegrityScore' <= getIntegrityScore
       /\ getIntegrityScore' >= 0
       /\ AccumulatedPenalty >= 100 => getIntegrityScore' = 0]_vars

\* the penalty has passed 1 with the timer running and the score is at its floor
C3_Witness ==
    /\ AccumulatedPenalty > 100
    /\ getIntegrityScore = 0
    /\ timeRemaining < TimeLimitSeconds
    /\ challenge

SeverityOfType(t) ==
    CASE t = "paste_detected" -> "high"
      [] t = "tab_switch" -> "medium"
      [] t = "unusual_timing" -> "medium"
      [] t = "inconsistent_explanation" -> "low"
      [] OTHER -> "none"

\* C5: every flag of integrityFlags has the severity fixed by its type
C5_SeverityFixedByType ==
    \A i \in 1..Len(integrityFlags) :
        integrityFlags[i].severity = SeverityOfType(integrityFlags[i].type)

\* one flag of each of the four types has been raised
C5_Witness ==
    \A t \in {"paste_detected", "tab_switch", "unusual_timing", "inconsistent_explanation"} :
        \E i \in 1..Len(integrityFlags) : integrityFlags[i].type = t

RECURSIVE NumberOfType(_, _)
\* how many flags of the list have the type
NumberOfType(flags, t) ==
    IF flags = <<>> THEN 0
    ELSE NumberOfType(Tail(flags), t) + (IF Head(flags).type = t THEN 1 ELSE 0)

\* C12: a paste appends one paste_detected flag and adds one to pasteAttempts
\* exactly when its target is the code input and the text is longer than 50
\* characters, and adds nothing otherwise; no other event changes pasteAttempts
\* or the paste_detected flags, so pasteAttempts is always their number
C12_PasteDetection ==
    /\ [](pasteAttempts = NumberOfType(integrityFlags, "paste_detected"))
    /\ [][/\ \A onCodeInput \in BOOLEAN, length \in PasteLengths :
                PasteEvent(onCodeInput, length) =>
                    IF onCodeInput /\ length > 50
                    THEN /\ pasteAttempts' = pasteAttempts + 1
                         /\ integrityFlags' =
                               Append(integrityFlags, Flag("paste_detected", "high"))
                    ELSE /\ pasteAttempts' = pasteAttempts
                         /\ integrityFlags' = integrityFlags
          /\ pasteAttempts' # pasteAttempts =>
                \E length \in PasteLengths : PasteEvent(TRUE, length)]_vars

\* two large pastes into the code input were flagged, among other flags
C12_Witness ==
    /\ pasteAttempts = 2
    /\ NumberOfType(integrityFlags, "paste_detected") = 2
    /\ Len(integrityFlags) > 2

\* C13: a visibilitychange event sets isTabActive to the visibility it reports
\* and appends exactly one tab_switch flag when the document is hidden and none
\* when it is visible; no other event changes isTabActive or the tab_switch flags
C13_TabSwitchDetection ==
    [][/\ \A hidden \in BOOLEAN :
             VisibilityEvent(hidden) =>
                 /\ isTabActive' = ~hidden
                 /\ integrityFlags' =
                       IF hidden THEN Append(integrityFlags, Flag("tab_switch", "medium"))
                       ELSE integrityFlags
       /\ (\/ isTabActive' # isTabActive
           \/ NumberOfType(integrityFlags', "tab_switch")
                  # NumberOfType(integrityFlags, "tab_switch")) =>
             \E hidden \in BOOLEAN : VisibilityEvent(hidden)]_vars

\* the candidate left the tab twice and is back: two tab_switch flags
C13_Witness ==
    /\ isTabActive
    /\ NumberOfType(integrityFlags, "tab_switch") = 2

\* C14: the surprise-question dialog is opened only by the tick at which
\* timeRemaining becomes floor(0.6 * time limit), it is open right after that
\* tick, and as the countdown never goes back up it is opened once: after the
\* candidate dismissed it, no later step opens it
C14_SurpriseOnce ==
    [][/\ ~showSurpriseQuestion /\ showSurpriseQuestion' =>
             timeRemaining = SurpriseTime + 1 /\ timeRemaining' = SurpriseTime
       /\ timeRemaining # SurpriseTime /\ timeRemaining' = SurpriseTime =>
             showSurpriseQuestion'
       /\ challenge => timeRemaining' <= timeRemaining]_vars

\* the dialog was opened and dismissed, and the countdown has moved on
C14_Witness ==
    /\ challenge
    /\ ~showSurpriseQuestion
    /\ timeRemaining < SurpriseTime

\* C15: the countdown starts at the time limit when the challenge is loaded,
\* every other change of timeRemaining is a timer tick that takes exactly 1
\* off (no other session event changes it), it is never negative, it
\* eventually reaches 0 and then stays 0
C15_Countdown ==
    /\ [](timeRemaining >= 0)
    /\ [][timeRemaining' # timeRemaining =>
             IF ~challenge
             THEN SessionLoad /\ challenge' /\ timeRemaining' = TimeLimitSeconds
             ELSE TimerTick /\ timeRemaining' = timeRemaining - 1]_vars
    /\ <>[](challenge /\ timeRemaining = 0)

\* the countdown has run out during a session with flags
C15_Witness ==
    /\ challenge
    /\ timeRemaining = 0
    /\ Len(integrityFlags) > 0

\* C24: handleCodeChange appends one unusual_timing flag if and only if the new
\* code text is more than 100 characters longer than the text before the change
\* (none when the code shrinks or grows by 100 or fewer), and codeInput is the
\* value passed
C24_CodeJump ==
    [][\A value \in CodeLengths :
          CodeChangeOf(value) =>
              /\ codeInput' = value
              /\ integrityFlags' =
                    IF value > codeInput + CodeJumpThreshold
                    THEN Append(integrityFlags, Flag("unusual_timing", "medium"))
                    ELSE integrityFlags]_vars

\* a jump of more than 100 characters was flagged, and the code was then cut
\* back without a further flag
C24_Witness ==
    /\ codeInput = 9
    /\ Len(integrityFlags) = 1
    /\ integrityFlags[1].type = "unusual_timing"

AllLow(flags) == \A i \in 1..Len(flags) : flags[i].severity = "low"

\* C25: handleExplanationChange appends exactly one low inconsistent_explanation
\* flag on every edit whose new text is longer than 50 characters while the code
\* is shorter than 10 characters, and none otherwise; n such edits add n flags,
\* and the score of n low flags alone is max(0, 1 - 0.05 n), which reaches 0
C25_ExplanationFlags ==
    /\ [][\A value \in ExplanationLengths :
             ExplanationChangeOf(value, MaxLowFlags) =>
                 integrityFlags' =
                    IF value > ExplanationThreshold /\ codeInput < MinCodeLength
                    THEN Append(integrityFlags, Flag("inconsistent_explanation", "low"))
                    ELSE integrityFlags]_vars
    /\ [](AllLow(integrityFlags) =>
            getIntegrityScore =
               IF Len(integrityFlags) * PenaltyLow >= One THEN 0
               ELSE One - Len(integrityFlags) * PenaltyLow)

\* twenty explanation edits, and nothing else, have driven the score to 0
C25_Witness ==
    /\ Len(integrityFlags) = 20
    /\ \A i \in 1..Len(integrityFlags) :
          integrityFlags[i] = Flag("inconsistent_explanation", "low")
    /\ getIntegrityScore = 0

(***************************************************************************)
(* Claims about the interview scheduler                                    *)
(***************************************************************************)
HasInterview(a) == \E i \in 1..Len(interviews) : interviews[i].application_id = a

\* C6: scheduling is all-or-nothing: once handleScheduleInterview has finished,
\* either the interview row was inserted and the application's status is
\* 'interview', or neither write took effect (no interview row exists for an
\* application whose status is still 'shortlisted')
C6_AllOrNothing ==
    schedPc = "idle" =>
        /\ schedOutcome = "completed" =>
              HasInterview(submittedId) /\ appStatus[submittedId] = "interview"
        /\ \A a \in AppIds : HasInterview(a) => appStatus[a] # "shortlisted"

\* C20: the scheduler offers only applications of the recruiter's own jobs, and
\* every interview row it inserts is for an application whose status is
\* 'shortlisted' at the time of the insert and whose job is the recruiter's
C20_OnlyShortlistedOwn ==
    /\ [](\A i \in 1..Len(applications) : OwnJob(applications[i]))
    /\ [][Len(interviews') > Len(interviews) =>
             LET a == interviews'[Len(interviews')].application_id
             IN  appStatus[a] = "shortlisted" /\ OwnJob(a)]_vars

\* C21: at most one interview row is ever inserted for an application: no two
\* rows of the interviews table carry the same application_id
C21_OneInterviewPerApplication ==
    \A i, j \in 1..Len(interviews) :
        interviews[i].application_id = interviews[j].application_id => i = j

(***************************************************************************)
(* Claims about the list of upcoming interviews                            *)
(***************************************************************************)
\* C22: startInterview changes an interview's status only from 'scheduled' to
\* 'in_progress': whenever its update takes effect, the interview's stored
\* status is 'scheduled'
C22_StartOnlyScheduled ==
    [][\A id \in InterviewIds : StartReturnOf(id, TRUE) => upStatus[id] = "scheduled"]_vars

\* C23: whenever the list is on the page, the Start / Join button of an interview
\* shown as 'scheduled' is enabled if and only if its scheduled time is strictly
\* in the future and at most 30 minutes away, and no session is opened from that
\* button once the scheduled time has passed
C23_StartWindow ==
    /\ [](viewMounted /\ ~viewLoading =>
            \A i \in 1..Len(viewInterviews) :
                viewInterviews[i].status = "scheduled" =>
                    (ButtonEnabled(viewInterviews[i])
                        <=> isInterviewSoon(viewInterviews[i].scheduled_at, viewNow)))
    /\ [][\A i \in 1..Len(viewInterviews) :
             PressButtonOf(i) /\ viewInterviews[i].status = "scheduled"
                 => viewInterviews[i].scheduled_at > viewNow]_vars

\* C23 at the moment of a render: the button is enabled exactly inside the window
C23_AtRender ==
    viewMounted /\ ~viewLoading /\ viewRenderedAt = viewNow =>
        \A i \in 1..Len(viewInterviews) :
            viewInterviews[i].status = "scheduled" =>
                (ButtonEnabled(viewInterviews[i])
                    <=> isInterviewSoon(viewInterviews[i].scheduled_at, viewNow))

(***************************************************************************)
(* Claims about the candidate profile form                                 *)
(***************************************************************************)
\* C27: when the form is submitted with a resume file selected, the skills
\* extracted from that resume are among the skills that submit's
\* updateCandidateProfile call writes
C27_ResumeSkillsWritten ==
    formPc = "updateCandidate" /\ formClosure.resumeFile =>
        resumeMentions \subseteq formWritten

(***************************************************************************)
(* Claims about the candidate pool                                         *)
(***************************************************************************)
\* C16: when a run of rankCandidatesForJob completes, the list it stores is a
\* permutation of the candidates the run ranked (the same rows but for their
\* ai_match_score), in non-increasing order of ai_match_score, and a candidate
\* whose embedding is missing, or any candidate when the job's is, has score 0
C16_RankedList ==
    [][RankingReturn =>
          LET ranked == Head(rankInFlight).candidates
              selectedJob == Head(rankInFlight).job
              shown == poolCandidates'
          IN  /\ Len(shown) = Len(ranked)
              /\ \E f \in Permutations(1..Len(ranked)) :
                    \A i \in 1..Len(ranked) :
                        /\ shown[f[i]].id = ranked[i].id
                        /\ shown[f[i]].embedding = ranked[i].embedding
              /\ \A i \in 1..Len(shown) : shown[i].ai_match_score.kind = "num"
              /\ \A i, j \in 1..Len(shown) :
                    i < j => shown[i].ai_match_score.v >= shown[j].ai_match_score.v
              /\ \A i \in 1..Len(shown) :
                    ~shown[i].embedding \/ ~selectedJob.embedding =>
                        shown[i].ai_match_score = Num(0)]_vars

\* a ranked list is shown in which one candidate has an embedding and one has not
C16_Witness ==
    /\ rankStored > 0
    /\ Len(poolCandidates) = NumCandidates
    /\ \A i \in 1..Len(poolCandidates) : poolCandidates[i].ai_match_score.kind = "num"
    /\ \E i, j \in 1..Len(poolCandidates) :
          poolCandidates[i].embedding /\ ~poolCandidates[j].embedding

C7_SinglePass == rankStarted <= rankTriggers /\ rankStored <= rankTriggers

(***************************************************************************)
(* Claims about error handling                                             *)
(***************************************************************************)
\* C8: whenever an external call failed during an operation, the failure was
\* logged and an error toast was shown by the time the operation finished
\* (here: fetching the recruiter's statistics and the candidate's dashboard)
C8_FailureLoggedAndToasted ==
    /\ statsPc = StatsDone /\ statsFailed => statsLogged /\ statsToast # "none"
    /\ dashPc = DashDone /\ dashFailed => dashLogged /\ dashToast # "none"

(***************************************************************************)
(* Claims about the monotonicity of the blend                              *)
(***************************************************************************)
\* the three inputs of the blend for a candidates row and the job of both calls
SimilarityOf(cand) == cosineSimilarity(cand.embedding, blendJob.embedding)
SkillRatioOf(cand) == calculateSkillMatch(cand.skills, blendJob.requirements)

\* the one column in which the rows differ did not lower its input of the blend:
\* the similarity, the skill-overlap ratio, or the candidate's years over the
\* years the job requires (the requirement is the same in both calls)
InputRaised ==
    /\ IsNum(SimilarityOf(blendLow)) /\ IsNum(SimilarityOf(blendHigh))
    /\ SimilarityOf(blendLow).v <= SimilarityOf(blendHigh).v
    /\ SkillRatioOf(blendLow).v <= SkillRatioOf(blendHigh).v
    /\ IsNum(blendLow.experience_years) /\ IsNum(blendHigh.experience_years)
    /\ blendLow.experience_years.v <= blendHigh.experience_years.v

ExperienceOf(cand) == calculateExperienceBonus(cand.experience_years, blendJob.requirements)

\* the second row has at least the years of the first (unknown years are the least)
MoreYears ==
    \/ blendLow.experience_years.kind = "null"
    \/ /\ IsNum(blendLow.experience_years) /\ IsNum(blendHigh.experience_years)
       /\ blendLow.experience_years.v <= blendHigh.experience_years.v

\* C28: for fixed job requirements calculateExperienceBonus is non-decreasing in
\* the candidate's years of experience, 0 and unknown years included
C28_ExperienceNonDecreasing ==
    blendPc = "applied" /\ MoreYears =>
        ~(/\ IsNum(ExperienceOf(blendLow)) /\ IsNum(ExperienceOf(blendHigh))
          /\ ExperienceOf(blendHigh).v < ExperienceOf(blendLow).v)

(***************************************************************************)
(* Claims about the auth context                                           *)
(***************************************************************************)
\* C17: the cached profile belongs to the current user: when user is null,
\* profile and candidateProfile are null, and when user and profile are both
\* there, profile.id is user.id (required here only once no fetch for the
\* current user is in flight any more)
C17_ProfileOfCurrentUser ==
    /\ user = 0 => profile = NoProfile /\ candidateProfile = NoCandidateProfile
    /\ /\ user # 0 /\ profile # NoProfile
       /\ \A f \in authFetches : f.user # user
       => profile.id = user

\* C18: whenever loading is true it eventually becomes false again
C18_LoadingEnds == authLoading ~> ~authLoading

\* a sign-in has gone all the way: the candidate's two rows are cached and
\* loading is false
C18_Witness ==
    /\ ~authLoading
    /\ authCalls > 0
    /\ user = 1
    /\ profile.id = 1
    /\ candidateProfile.profile_id = 1

\* the updates a call can carry, for either target
UpdateCalls ==
    {[target |-> t, user |-> u, value |-> v] :
        t \in {"profile", "candidate"}, u \in Users, v \in Texts}

\* C19: when the remote update of updateProfile or updateCandidateProfile fails,
\* profile and candidateProfile stay as they are and the error is rethrown; when
\* it succeeds, the cached row (if any) takes the updates; a call made with no
\* user signed in (or, for updateCandidateProfile, with a profile that is not a
\* candidate's) makes no remote call and changes no state
C19_UpdateFailureKeepsCache ==
    [][/\ \A p \in UpdateCalls :
             /\ UpdateReturnOf(p, FALSE) =>
                   /\ profile' = profile
                   /\ candidateProfile' = candidateProfile
                   /\ updateOutcome' = "rethrown"
             /\ UpdateReturnOf(p, TRUE) =>
                   /\ updateOutcome' = "resolved"
                   /\ profile' = IF p.target = "profile" /\ profile # NoProfile
                                 THEN [profile EXCEPT !.full_name = p.value] ELSE profile
                   /\ candidateProfile' =
                         IF p.target = "candidate" /\ candidateProfile # NoCandidateProfile
                         THEN [candidateProfile EXCEPT !.location = p.value]
                         ELSE candidateProfile
       /\ \/ UpdateProfileCall /\ user = 0
          \/ UpdateCandidateProfileCall /\ (user = 0 \/ profile.role # "candidate")
          => /\ updatePending' = updatePending
             /\ <<user, profile, candidateProfile, authLoading>>'
                   = <<user, profile, candidateProfile, authLoading>>
             /\ <<profilesTable, candidatesTable>>' = <<profilesTable, candidatesTable>>]_vars

\* a remote update that would have changed the cached profile has failed
C19_Witness ==
    /\ updateOutcome = "rethrown"
    /\ user # 0
    /\ profile.id = user
    /\ profile.full_name = 0

====
